---- MODULE Spec2Model ----
(***************************************************************************)
(* A model of kilo.c, a terminal text editor.                              *)
(*                                                                         *)
(* Bytes are integers 0..255 and strings are sequences of bytes; a key is  *)
(* the int editorReadKey returns.  The global `struct editorConfig E` is   *)
(* the record E, a row (`erow`) is a record with the struct's fields, and  *)
(* every C function that changes E is an operator from E to the new E.     *)
(* C indexes from 0 and TLA+ sequences from 1: chars[j] in C is            *)
(* chars[j + 1] here.                                                      *)
(***************************************************************************)
EXTENDS Integers, Sequences, FiniteSets, TLC

(***************************************************************************)
(* defines                                                                 *)
(***************************************************************************)
KILO_TAB_STOP == 8
KILO_QUIT_TIMES == 3

BACKSPACE == 127
ARROW_LEFT == 1000
ARROW_RIGHT == 1001
ARROW_UP == 1002
ARROW_DOWN == 1003
DEL_KEY == 1004
HOME_KEY == 1005
END_KEY == 1006
PAGE_UP == 1007
PAGE_DOWN == 1008

HL_NORMAL == 0
HL_COMMENT == 1
HL_KEYWORD1 == 2
HL_KEYWORD2 == 3
HL_STRING == 4
HL_NUMBER == 5
HL_MATCH == 6

HL_HIGHLIGHT_NUMBERS == 1
HL_HIGHLIGHT_STRINGS == 2

\* key & 0x1f
CTRL_KEY(key) == key % 32

\* The bytes the code names as character literals.
CH_NUL == 0
CH_TAB == 9
CH_CR == 13
CH_ESC == 27
CH_SPACE == 32
CH_DQUOTE == 34
CH_SQUOTE == 39
CH_DOT == 46
CH_BACKSLASH == 92
CH_BAR == 124

\* A null `char *` (E.filename, the result of a cancelled prompt).
NULL == << -1 >>

Max(a, b) == IF a > b THEN a ELSE b

(***************************************************************************)
(* bounds of the model                                                     *)
(***************************************************************************)
\* longest row the typed keys and the loaded files build
MaxLen == 2
\* most rows the typed keys and the loaded files build
MaxRows == 2
\* editing keys are taken while E.dirty is below this (a save resets it)
MaxDirty == 2
\* longest text typed into a prompt
MaxQuery == 1
\* the window size getWindowSize reports
WinRows == 4
WinCols == 4

(***************************************************************************)
(* ctype.h, for the "C" locale                                             *)
(***************************************************************************)
isspace(c) == c \in {9, 10, 11, 12, 13, 32}
isdigit(c) == c >= 48 /\ c <= 57
iscntrl(c) == (c >= 0 /\ c <= 31) \/ c = 127

(***************************************************************************)
(* data: the highlight database                                            *)
(***************************************************************************)
C_HL_extensions == << <<46, 99>>, <<46, 104>>, <<46, 99, 112, 112>> >>

CL_HL_keywords == <<
   <<115, 119, 105, 116, 99, 104>>,
   <<105, 102>>,
   <<119, 104, 105, 108, 101>>,
   <<102, 111, 114>>,
   <<98, 114, 101, 97, 107>>,
   <<99, 111, 110, 116, 105, 110, 117, 101>>,
   <<114, 101, 116, 117, 114, 110>>,
   <<101, 108, 115, 101>>,
   <<115, 116, 114, 117, 99, 116>>,
   <<117, 110, 105, 111, 110>>,
   <<116, 121, 112, 101, 100, 101, 102>>,
   <<115, 116, 97, 116, 105, 99>>,
   <<101, 110, 117, 109>>,
   <<99, 108, 97, 115, 115>>,
   <<99, 97, 115, 101>>,
   <<105, 110, 116, 124>>,
   <<108, 111, 110, 103, 124>>,
   <<100, 111, 117, 98, 108, 101, 124>>,
   <<102, 108, 111, 97, 116, 124>>,
   <<99, 104, 97, 114, 124>>,
   <<117, 110, 115, 105, 103, 110, 101, 100, 124>>,
   <<115, 105, 103, 110, 101, 100, 124>>,
   <<118, 111, 105, 100, 124>> >>

\* The database with no singleline_comment_start: a variant the properties
\* about comments must tell from the source.
HLDBNoComments == [filetype |-> "c",
         filematch |-> C_HL_extensions,
         keywords |-> CL_HL_keywords,
         singleline_comment_start |-> <<>>,
         flags |-> HL_HIGHLIGHT_NUMBERS + HL_HIGHLIGHT_STRINGS]

\* E.syntax is "NULL" or the filetype of the one HLDB entry, "c".
HLDB == [filetype |-> "c",
         filematch |-> C_HL_extensions,
         keywords |-> CL_HL_keywords,
         singleline_comment_start |-> <<47, 47>>,
         flags |-> HL_HIGHLIGHT_NUMBERS + HL_HIGHLIGHT_STRINGS]

\* flags & bit, for the two one-bit flags
HasFlag(flags, bit) == (flags \div bit) % 2 = 1

(***************************************************************************)
(* syntax highlighting                                                     *)
(***************************************************************************)
is_separator(c) ==
  isspace(c) \/ c = CH_NUL
  \/ c \in {44, 46, 40, 41, 43, 45, 47, 42, 61, 126, 37, 60, 62, 91, 93, 59}

\* render[idx] of a NUL-terminated buffer holding rsize bytes.
RenderAt(render, rsize, idx) == IF idx < rsize THEN render[idx + 1] ELSE CH_NUL

\* !strncmp(&render[i], s, n) for a string s that holds no NUL in its first n bytes
StrNEq(render, rsize, i, s, n) ==
  \A k \in 0..(n - 1) : RenderAt(render, rsize, i + k) = s[k + 1]

\* memset(&hl[from], v, n + 1): a variant the properties about the extent
\* of a highlighted span must tell from the source.
MemSetLong(hl, from, v, n) ==
  [k \in 1..Max(Len(hl), from + n + 1) |->
     IF k - 1 >= from /\ k - 1 < from + n + 1 THEN v ELSE hl[k]]

\* memset(&hl[from], v, n); a write past the end of the array shows as an
\* array grown to hold it.
MemSet(hl, from, v, n) ==
  [k \in 1..Max(Len(hl), IF n > 0 THEN from + n ELSE 0) |->
     IF k - 1 >= from /\ k - 1 < from + n THEN v ELSE hl[k]]

\* is_kw2 of a table without the '|' marks: a variant the properties about
\* the keyword tiers must tell from the source.
KwIsKw2Never(kw) == FALSE

\* The length the keyword match compares: strlen, less the trailing '|' of a KW2.
KwIsKw2(kw) == kw[Len(kw)] = CH_BAR
KwLen(kw) == IF KwIsKw2(kw) THEN Len(kw) - 1 ELSE Len(kw)

\* The for loop over keywords[j]: the first j whose keyword matches at i, or 0.
RECURSIVE KeywordAt(_, _, _, _, _)
KeywordAt(keywords, render, rsize, i, j) ==
  IF j > Len(keywords) THEN 0
  ELSE IF StrNEq(render, rsize, i, keywords[j], KwLen(keywords[j]))
          /\ is_separator(RenderAt(render, rsize, i + KwLen(keywords[j])))
       THEN j
       ELSE KeywordAt(keywords, render, rsize, i, j + 1)

\* The while loop of editorUpdateSyntax; in_string is 0 or the open quote.
RECURSIVE SyntaxLoop(_, _, _, _, _, _)
SyntaxLoop(render, rsize, hl, i, prev_sep, in_string) ==
  IF i >= rsize THEN hl
  ELSE
    LET c == render[i + 1]
        prev_hl == IF i > 0 THEN hl[i] ELSE HL_NORMAL
        scs == HLDB.singleline_comment_start
        kw == IF prev_sep THEN KeywordAt(HLDB.keywords, render, rsize, i, 1) ELSE 0
    IN
    IF Len(scs) # 0 /\ in_string = 0 /\ StrNEq(render, rsize, i, scs, Len(scs))
    THEN MemSet(hl, i, HL_COMMENT, rsize - i)
    ELSE IF HasFlag(HLDB.flags, HL_HIGHLIGHT_STRINGS) /\ in_string # 0
    THEN IF c = CH_BACKSLASH /\ i + 1 < rsize
         THEN SyntaxLoop(render, rsize, MemSet(hl, i, HL_STRING, 2), i + 2,
                         prev_sep, in_string)
         ELSE SyntaxLoop(render, rsize, MemSet(hl, i, HL_STRING, 1), i + 1,
                         TRUE, IF c = in_string THEN 0 ELSE in_string)
    ELSE IF HasFlag(HLDB.flags, HL_HIGHLIGHT_STRINGS)
            /\ (c = CH_DQUOTE \/ c = CH_SQUOTE)
    THEN SyntaxLoop(render, rsize, MemSet(hl, i, HL_STRING, 1), i + 1, prev_sep, c)
    ELSE IF HasFlag(HLDB.flags, HL_HIGHLIGHT_NUMBERS)
            /\ ((isdigit(c) /\ (prev_sep \/ prev_hl = HL_NUMBER))
                \/ (c = CH_DOT /\ prev_hl = HL_NUMBER))
    THEN SyntaxLoop(render, rsize, MemSet(hl, i, HL_NUMBER, 1), i + 1, FALSE,
                    in_string)
    ELSE IF kw # 0
    THEN LET k == HLDB.keywords[kw]
         IN SyntaxLoop(render, rsize,
                       MemSet(hl, i, IF KwIsKw2(k) THEN HL_KEYWORD2 ELSE HL_KEYWORD1,
                              KwLen(k)),
                       i + KwLen(k), FALSE, in_string)
    ELSE SyntaxLoop(render, rsize, hl, i + 1, is_separator(c), in_string)

\* The highlight array editorUpdateSyntax leaves in row->hl.
editorUpdateSyntax(syntax, render, rsize) ==
  LET normal == [k \in 1..Max(rsize, 0) |-> HL_NORMAL]
  IN IF syntax = "NULL" THEN normal
     ELSE SyntaxLoop(render, rsize, normal, 0, TRUE, 0)

(***************************************************************************)
(* row operations                                                          *)
(***************************************************************************)
\* row->chars[j]: the byte at j, the terminating NUL at j = size
CharAt(row, j) == IF j < Len(row.chars) THEN row.chars[j + 1] ELSE CH_NUL

RECURSIVE CxToRxLoop(_, _, _, _)
CxToRxLoop(row, cx, j, rx) ==
  IF j >= cx THEN rx
  ELSE LET rx1 == IF CharAt(row, j) = CH_TAB
                  THEN rx + (KILO_TAB_STOP - 1) - (rx % KILO_TAB_STOP)
                  ELSE rx
       IN CxToRxLoop(row, cx, j + 1, rx1 + 1)

editorRowCxToRx(row, cx) == CxToRxLoop(row, cx, 0, 0)

\* The tab branch assigns cur_rx (line 656), it does not add to it.
RECURSIVE RxToCxLoop(_, _, _, _)
RxToCxLoop(row, rx, cx, cur_rx) ==
  IF cx >= row.size THEN cx
  ELSE LET cur1 == IF CharAt(row, cx) = CH_TAB
                   THEN (KILO_TAB_STOP - 1) - (cur_rx % KILO_TAB_STOP)
                   ELSE cur_rx
       IN IF cur1 + 1 > rx THEN cx ELSE RxToCxLoop(row, rx, cx + 1, cur1 + 1)

editorRowRxToCx(row, rx) == RxToCxLoop(row, rx, 0, 0)

\* The padding loop with KILO_TAB_STOP - 1 for KILO_TAB_STOP: a variant the
\* properties about the render string must tell from the source.
RECURSIVE PadToTabStopShort(_)
PadToTabStopShort(render) ==
  IF Len(render) % (KILO_TAB_STOP - 1) # 0
  THEN PadToTabStopShort(Append(render, CH_SPACE))
  ELSE render

\* while (idx % KILO_TAB_STOP != 0) render[idx++] = ' '
RECURSIVE PadToTabStop(_)
PadToTabStop(render) ==
  IF Len(render) % KILO_TAB_STOP # 0 THEN PadToTabStop(Append(render, CH_SPACE))
  ELSE render

RECURSIVE RenderLoop(_, _, _)
RenderLoop(row, j, render) ==
  IF j >= row.size THEN render
  ELSE IF CharAt(row, j) = CH_TAB
       THEN RenderLoop(row, j + 1, PadToTabStop(Append(render, CH_SPACE)))
       ELSE RenderLoop(row, j + 1, Append(render, CharAt(row, j)))

\* editorUpdateRow(row), with E.syntax as the highlighter reads it
editorUpdateRow(syntax, row) ==
  LET render == RenderLoop(row, 0, <<>>)
  IN [row EXCEPT !.render = render,
                 !.rsize = Len(render),
                 !.hl = editorUpdateSyntax(syntax, render, Len(render))]

\* The sequence q with x put in before (0-based) index at.
InsertAt(q, at, x) == SubSeq(q, 1, at) \o <<x>> \o SubSeq(q, at + 1, Len(q))
\* The sequence q without its element at (0-based) index at.
RemoveAt(q, at) == SubSeq(q, 1, at) \o SubSeq(q, at + 2, Len(q))

\* Whether &E.row[r] points into the rows the document holds.
RowInRange(E, r) == r >= 0 /\ r < E.numrows

\* E.row[r].size.  For r outside [0, numrows) the read is out of bounds (a
\* stale slot left by editorDelRow, or memory past the array) and yields g.
RowSize(E, r, g) == IF RowInRange(E, r) THEN E.row[r + 1].size ELSE g

editorInsertRow(E, at, s, len) ==
  IF at < 0 \/ at > E.numrows THEN E
  ELSE LET fresh == editorUpdateRow(E.syntax,
                      [size |-> len, rsize |-> 0, chars |-> SubSeq(s, 1, len),
                       render |-> <<>>, hl |-> <<>>])
       IN [E EXCEPT !.row = InsertAt(@, at, fresh),
                    !.numrows = @ + 1,
                    !.dirty = @ + 1]

editorDelRow(E, at) ==
  IF at < 0 \/ at >= E.numrows THEN E
  ELSE [E EXCEPT !.row = RemoveAt(@, at),
                 !.numrows = @ - 1,
                 !.dirty = @ + 1]

\* editorRowInsertChar without its E.dirty++: a variant the properties about
\* the dirty flag must tell from the source.
editorRowInsertCharClean(E, r, at, c) ==
  LET row == E.row[r + 1]
      at1 == IF at < 0 \/ at > row.size THEN row.size ELSE at
      row1 == [row EXCEPT !.chars = InsertAt(@, at1, c % 256),
                          !.size = @ + 1]
  IN [E EXCEPT !.row[r + 1] = editorUpdateRow(E.syntax, row1)]

\* editorRowInsertChar(&E.row[r], at, c), for a row r of the document.  The
\* byte stored is (char)c.
editorRowInsertChar(E, r, at, c) ==
  LET row == E.row[r + 1]
      at1 == IF at < 0 \/ at > row.size THEN row.size ELSE at
      row1 == [row EXCEPT !.chars = InsertAt(@, at1, c % 256),
                          !.size = @ + 1]
  IN [E EXCEPT !.row[r + 1] = editorUpdateRow(E.syntax, row1),
               !.dirty = @ + 1]

\* editorRowAppendString copying len - 1 bytes: a variant the properties
\* about joining rows must tell from the source.
editorRowAppendStringShort(E, r, s, len) ==
  LET row == E.row[r + 1]
      n == Max(len - 1, 0)
      row1 == [row EXCEPT !.chars = @ \o SubSeq(s, 1, n),
                          !.size = @ + n]
  IN [E EXCEPT !.row[r + 1] = editorUpdateRow(E.syntax, row1),
               !.dirty = @ + 1]

\* editorRowAppendString(&E.row[r], s, len)
editorRowAppendString(E, r, s, len) ==
  LET row == E.row[r + 1]
      row1 == [row EXCEPT !.chars = @ \o SubSeq(s, 1, len),
                          !.size = @ + len]
  IN [E EXCEPT !.row[r + 1] = editorUpdateRow(E.syntax, row1),
               !.dirty = @ + 1]

\* editorRowDelChar moving from one byte too far: a variant the properties
\* about deleting must tell from the source.
editorRowDelCharOffByOne(E, r, at) ==
  LET row == E.row[r + 1]
      moved == IF at + 1 < row.size THEN RemoveAt(row.chars, at + 1) ELSE row.chars
      row1 == [row EXCEPT !.chars = SubSeq(moved, 1, row.size - 1),
                          !.size = @ - 1]
  IN IF at < 0 \/ at > row.size THEN E
     ELSE [E EXCEPT !.row[r + 1] = editorUpdateRow(E.syntax, row1),
                    !.dirty = @ + 1]

\* editorRowDelChar(&E.row[r], at).  at = size passes the guard: memmove moves
\* nothing and size-- drops the last byte.
editorRowDelChar(E, r, at) ==
  LET row == E.row[r + 1]
      moved == IF at < row.size THEN RemoveAt(row.chars, at) ELSE row.chars
      row1 == [row EXCEPT !.chars = SubSeq(moved, 1, row.size - 1),
                          !.size = @ - 1]
  IN IF at < 0 \/ at > row.size THEN E
     ELSE [E EXCEPT !.row[r + 1] = editorUpdateRow(E.syntax, row1),
                    !.dirty = @ + 1]

(***************************************************************************)
(* editor operations                                                       *)
(***************************************************************************)
editorInsertChar(E, c) ==
  LET E1 == IF E.cy = E.numrows THEN editorInsertRow(E, E.numrows, <<>>, 0) ELSE E
      E2 == editorRowInsertChar(E1, E1.cy, E1.cx, c)
  IN [E2 EXCEPT !.cx = @ + 1]

\* editorInsertNewline without the editorUpdateRow of the truncated row: a
\* variant the properties about render strings must tell from the source.
editorInsertNewlineStale(E) ==
  LET E1 ==
        IF E.cx = 0 THEN editorInsertRow(E, E.cy, <<>>, 0)
        ELSE LET row == E.row[E.cy + 1]
                 E2 == editorInsertRow(E, E.cy + 1,
                                       SubSeq(row.chars, E.cx + 1, row.size),
                                       row.size - E.cx)
             IN [E2 EXCEPT !.row[E.cy + 1] =
                             [@ EXCEPT !.size = E.cx, !.chars = SubSeq(@, 1, E.cx)]]
  IN [E1 EXCEPT !.cy = @ + 1, !.cx = 0]

editorInsertNewline(E) ==
  LET E1 ==
        IF E.cx = 0 THEN editorInsertRow(E, E.cy, <<>>, 0)
        ELSE LET row == E.row[E.cy + 1]
                 E2 == editorInsertRow(E, E.cy + 1,
                                       SubSeq(row.chars, E.cx + 1, row.size),
                                       row.size - E.cx)
                 cut == [E2.row[E.cy + 1] EXCEPT !.size = E.cx,
                                                !.chars = SubSeq(@, 1, E.cx)]
             IN [E2 EXCEPT !.row[E.cy + 1] = editorUpdateRow(E.syntax, cut)]
  IN [E1 EXCEPT !.cy = @ + 1, !.cx = 0]

\* editorDelChar deleting the first row where the source returns at (0, 0):
\* a variant the properties about the number of rows must tell from the
\* source.
editorDelCharFirstRow(E) ==
  IF E.cy = E.numrows THEN E
  ELSE IF E.cx = 0 /\ E.cy = 0 THEN editorDelRow(E, 0)
  ELSE IF E.cx > 0
  THEN [editorRowDelChar(E, E.cy, E.cx - 1) EXCEPT !.cx = @ - 1]
  ELSE LET row == E.row[E.cy + 1]
           E1 == [E EXCEPT !.cx = E.row[E.cy].size]
           E2 == editorRowAppendString(E1, E.cy - 1, row.chars, row.size)
           E3 == editorDelRow(E2, E.cy)
       IN [E3 EXCEPT !.cy = @ - 1]

editorDelChar(E) ==
  IF E.cy = E.numrows THEN E
  ELSE IF E.cx = 0 /\ E.cy = 0 THEN E
  ELSE IF E.cx > 0
  THEN [editorRowDelChar(E, E.cy, E.cx - 1) EXCEPT !.cx = @ - 1]
  ELSE LET row == E.row[E.cy + 1]
           E1 == [E EXCEPT !.cx = E.row[E.cy].size]
           E2 == editorRowAppendString(E1, E.cy - 1, row.chars, row.size)
           E3 == editorDelRow(E2, E.cy)
       IN [E3 EXCEPT !.cy = @ - 1]

(***************************************************************************)
(* output                                                                  *)
(***************************************************************************)
\* editorScroll with > for >= in its two tests against the far edges: a
\* variant the properties about the window must tell from the source.
editorScrollOffByOne(E) ==
  LET rx == IF E.cy < E.numrows THEN editorRowCxToRx(E.row[E.cy + 1], E.cx) ELSE 0
      rowoff1 == IF E.cy < E.rowoff THEN E.cy ELSE E.rowoff
      rowoff2 == IF E.cy > rowoff1 + E.screenrows THEN E.cy - E.screenrows + 1
                 ELSE rowoff1
      coloff1 == IF rx < E.coloff THEN rx ELSE E.coloff
      coloff2 == IF rx > coloff1 + E.screencols THEN rx - E.screencols + 1
                 ELSE coloff1
  IN [E EXCEPT !.rx = rx, !.rowoff = rowoff2, !.coloff = coloff2]

editorScroll(E) ==
  LET rx == IF E.cy < E.numrows THEN editorRowCxToRx(E.row[E.cy + 1], E.cx) ELSE 0
      rowoff1 == IF E.cy < E.rowoff THEN E.cy ELSE E.rowoff
      rowoff2 == IF E.cy >= rowoff1 + E.screenrows THEN E.cy - E.screenrows + 1
                 ELSE rowoff1
      coloff1 == IF rx < E.coloff THEN rx ELSE E.coloff
      coloff2 == IF rx >= coloff1 + E.screencols THEN rx - E.screencols + 1
                 ELSE coloff1
  IN [E EXCEPT !.rx = rx, !.rowoff = rowoff2, !.coloff = coloff2]

\* editorSetStatusMessage(fmt, ...): the format and its arguments
editorSetStatusMessage(E, fmt, arg) ==
  [E EXCEPT !.statusmsg = [fmt |-> fmt, arg |-> arg]]

\* snprintf's %d
RECURSIVE Digits(_)
Digits(n) == IF n < 10 THEN <<48 + n>> ELSE Digits(n \div 10) \o <<48 + (n % 10)>>
Decimal(n) == IF n < 0 THEN <<45>> \o Digits(-n) ELSE Digits(n)

\* The first n bytes of s, as snprintf into a buffer of n + 1 bytes and the
\* explicit truncations keep them.
Truncate(s, n) == SubSeq(s, 1, IF Len(s) < n THEN Len(s) ELSE n)

\* The string vsnprintf leaves in E.statusmsg (80 bytes), the literals of
\* the formats as bytes; the text of strerror is not modelled.
StatusText(statusmsg) ==
  LET
      HelpText == <<72, 69, 76, 80, 58, 32, 67, 116, 114, 108, 45, 115, 32,
          61, 32, 115, 97, 118, 101, 32, 124, 32, 67, 116, 114, 108, 45, 113,
          32, 61, 32, 113, 117, 105, 116, 32, 124, 32, 67, 116, 114, 108, 45,
          102, 32, 61, 32, 102, 105, 110, 100>>
      SearchText == <<83, 101, 97, 114, 99, 104, 58, 32>>
      SearchTextEnd == <<32, 40, 85, 115, 101, 32, 69, 83, 67, 47, 65, 114,
          114, 111, 119, 115, 47, 69, 110, 116, 101, 114, 41>>
      SaveAsText == <<83, 97, 118, 101, 32, 97, 115, 58, 32>>
      WrittenTextEnd == <<32, 98, 121, 116, 101, 115, 32, 119, 114, 105, 116,
          116, 101, 110, 32, 116, 111, 32, 100, 105, 115, 107>>
      CantSaveText == <<67, 97, 110, 39, 116, 32, 115, 97, 118, 101, 33, 32,
          73, 47, 79, 32, 101, 114, 114, 111, 114, 58, 32>>
      WarningText == <<87, 65, 82, 78, 73, 78, 71, 33, 33, 33, 32, 70, 105,
          108, 101, 32, 104, 97, 115, 32, 117, 110, 115, 97, 118, 101, 100,
          32, 99, 104, 97, 110, 103, 101, 115, 46, 32, 80, 114, 101, 115,
          115, 32, 99, 116, 114, 108, 45, 113, 32>>
      WarningTextEnd == <<32, 109, 111, 114, 101, 32, 116, 105, 109, 101,
          115, 32, 116, 111, 32, 113, 117, 105, 116, 46>>
      SaveCancelledText == <<83, 97, 118, 101, 32, 99, 97, 110, 99, 101, 108,
          108, 101, 100>>
  IN Truncate(
    CASE statusmsg.fmt = "" -> <<>>
      [] statusmsg.fmt = "HELP: Ctrl-s = save | Ctrl-q = quit | Ctrl-f = find" ->
           HelpText
      [] statusmsg.fmt = "Search: %s (Use ESC/Arrows/Enter)" ->
           SearchText \o statusmsg.arg \o SearchTextEnd
      [] statusmsg.fmt = "Save as: %s" -> SaveAsText \o statusmsg.arg
      [] statusmsg.fmt = "%d bytes written to disk" ->
           Decimal(statusmsg.arg[1]) \o WrittenTextEnd
      [] statusmsg.fmt = "Can't save! I/O error: %s" -> CantSaveText
      [] statusmsg.fmt =
           "WARNING!!! File has unsaved changes. Press ctrl-q %d more times to quit." ->
           WarningText \o Decimal(statusmsg.arg[1]) \o WarningTextEnd
      [] statusmsg.fmt = "Save cancelled" -> SaveCancelledText,
    79)

\* The escape sequences of the frame and its line end: hide and show the
\* cursor, cursor home, inverted colors, reset formatting, default text
\* color, clear to the end of the line.
VT100 ==
  [hide |-> <<27, 91, 63, 50, 53, 108>>, show |-> <<27, 91, 63, 50, 53, 104>>,
   home |-> <<27, 91, 72>>, invert |-> <<27, 91, 55, 109>>,
   reset |-> <<27, 91, 109>>, default |-> <<27, 91, 51, 57, 109>>,
   clear |-> <<27, 91, 75>>, crlf |-> <<13, 10>>]

\* snprintf(buf, sizeof(buf), "\x1b[%dm", color), and line 1303's format,
\* "\x1b[%dm]"
SetColor(color) == <<27, 91>> \o Decimal(color) \o <<109>>
SetColorAgain(color) == <<27, 91>> \o Decimal(color) \o <<109, 93>>

editorSyntaxToColor(hl) ==
  CASE hl = HL_COMMENT -> 36
    [] hl = HL_KEYWORD1 -> 32
    [] hl = HL_KEYWORD2 -> 33
    [] hl = HL_STRING -> 35
    [] hl = HL_NUMBER -> 31
    [] hl = HL_MATCH -> 34
    [] OTHER -> 37

\* The for loop of editorDrawRows over the visible part of a row (lines
\* 1286-1327): the bytes appended from column j on; current_color is -1 or
\* the color in force.
RECURSIVE DrawRowLoop(_, _, _, _, _)
DrawRowLoop(row, coloff, len, j, current_color) ==
  IF j >= len THEN <<>>
  ELSE
    LET c == row.render[coloff + j + 1]
        hl == row.hl[coloff + j + 1]
        sym == IF c <= 26 THEN 64 + c ELSE 63
        color == editorSyntaxToColor(hl)
    IN IF iscntrl(c)
       THEN VT100.invert \o <<sym>> \o VT100.reset
              \o (IF current_color # -1 THEN SetColorAgain(current_color) ELSE <<>>)
              \o DrawRowLoop(row, coloff, len, j + 1, current_color)
       ELSE IF hl = HL_NORMAL
       THEN (IF current_color # -1 THEN VT100.default ELSE <<>>) \o <<c>>
              \o DrawRowLoop(row, coloff, len, j + 1, -1)
       ELSE (IF color # current_color THEN SetColor(color) ELSE <<>>) \o <<c>>
              \o DrawRowLoop(row, coloff, len, j + 1, color)

\* The else branch of editorDrawRows (lines 1272-1329): a row of the
\* document, cut to the window.
DrawRow(row, coloff, screencols) ==
  LET len0 == row.rsize - coloff
      len1 == IF len0 < 0 THEN 0 ELSE len0
      len == IF len1 > screencols THEN screencols ELSE len1
  IN DrawRowLoop(row, coloff, len, 0, -1) \o VT100.default

\* The welcome line (lines 1246-1265).
DrawWelcome(screencols) ==
  LET WelcomeText == <<75, 105, 108, 111, 32, 101, 100, 105, 116, 111, 114,
          32, 45, 45, 45, 32, 118, 101, 114, 115, 105, 111, 110, 32, 48, 46,
          48, 46, 49>>
      welcome == Truncate(WelcomeText, screencols)
      padding == (screencols - Len(welcome)) \div 2
  IN (IF padding # 0 THEN <<126>> \o [k \in 1..(padding - 1) |-> CH_SPACE]
      ELSE <<>>) \o welcome

\* editorDrawRows from screen line y on.
RECURSIVE DrawRowsFrom(_, _)
DrawRowsFrom(E, y) ==
  IF y >= E.screenrows THEN <<>>
  ELSE
    LET filerow == y + E.rowoff
    IN (IF filerow >= E.numrows
        THEN IF E.numrows = 0 /\ y = E.screenrows \div 3
             THEN DrawWelcome(E.screencols)
             ELSE <<126>>
        ELSE DrawRow(E.row[filerow + 1], E.coloff, E.screencols))
         \o VT100.clear \o VT100.crlf \o DrawRowsFrom(E, y + 1)

editorDrawRows(E) == DrawRowsFrom(E, 0)

\* The while loop of editorDrawStatusBar (lines 1368-1378).
RECURSIVE StatusPad(_, _, _)
StatusPad(len, screencols, rstatus) ==
  IF len >= screencols THEN <<>>
  ELSE IF screencols - len = Len(rstatus) THEN rstatus
  ELSE <<CH_SPACE>> \o StatusPad(len + 1, screencols, rstatus)

editorDrawStatusBar(E) ==
  LET NoNameText == <<91, 78, 111, 32, 78, 97, 109, 101, 93>>
      NoFtText == <<110, 111, 32, 102, 116>>
      ModifiedText == <<40, 109, 111, 100, 105, 102, 105, 101, 100, 41>>
      LinesText == <<32, 108, 105, 110, 101, 115, 32>>
      status == Truncate(IF E.filename = NULL THEN NoNameText ELSE E.filename, 20)
                  \o <<32, 45, 32>> \o Decimal(E.numrows) \o LinesText
                  \o (IF E.dirty # 0 THEN ModifiedText ELSE <<>>)
      rstatus == (IF E.syntax = "NULL" THEN NoFtText ELSE <<99>>)
                   \o <<32, 124, 32>> \o Decimal(E.cy + 1) \o <<47>>
                   \o Decimal(E.numrows)
      len == IF Len(status) > E.screencols THEN E.screencols ELSE Len(status)
  IN VT100.invert \o Truncate(status, len) \o StatusPad(len, E.screencols, rstatus)
       \o VT100.reset \o VT100.crlf

\* editorDrawMessageBar; fresh is whether the message is less than five
\* seconds old.
editorDrawMessageBar(E, fresh) ==
  LET text == StatusText(E.statusmsg)
      msglen == IF Len(text) > E.screencols THEN E.screencols ELSE Len(text)
  IN VT100.clear \o (IF msglen # 0 /\ fresh THEN Truncate(text, msglen) ELSE <<>>)

\* The cursor-position sequence with cx for rx: a variant the properties
\* about the frame must tell from the source.
CursorToRaw(E) ==
  <<27, 91>> \o Decimal((E.cy - E.rowoff) + 1) \o <<59>>
    \o Decimal((E.cx - E.coloff) + 1) \o <<72>>

\* snprintf(buf, sizeof(buf), "\x1b[%d;%dH", ...) of lines 1428-1429
CursorTo(E) ==
  <<27, 91>> \o Decimal((E.cy - E.rowoff) + 1) \o <<59>>
    \o Decimal((E.rx - E.coloff) + 1) \o <<72>>

\* The buffer editorRefreshScreen hands to write() (lines 1416-1436), E
\* being the global after editorScroll.
RefreshFrame(E, fresh) ==
  VT100.hide \o VT100.home \o editorDrawRows(E) \o editorDrawStatusBar(E)
    \o editorDrawMessageBar(E, fresh) \o CursorTo(E) \o VT100.show

(***************************************************************************)
(* input                                                                   *)
(***************************************************************************)
\* The first pointer editorMoveCursor takes (line 1526): NULL only when
\* cy > numrows, or when the array itself is still NULL (no row was ever
\* inserted, so numrows = 0 and &E.row[0] is NULL).
MoveRowIsNull(E) == E.cy > E.numrows \/ E.numrows = 0

editorMoveCursor(E, key, g) ==
  LET size == RowSize(E, E.cy, g)
      E1 ==
        IF key = ARROW_LEFT
        THEN IF E.cx > 0 THEN [E EXCEPT !.cx = @ - 1]
             ELSE IF E.cy > 0
                  THEN [E EXCEPT !.cy = @ - 1, !.cx = RowSize(E, E.cy - 1, g)]
                  ELSE E
        ELSE IF key = ARROW_DOWN
        THEN IF E.cy < E.numrows THEN [E EXCEPT !.cy = @ + 1] ELSE E
        ELSE IF key = ARROW_RIGHT
        THEN IF ~MoveRowIsNull(E) /\ E.cx < size THEN [E EXCEPT !.cx = @ + 1]
             ELSE IF ~MoveRowIsNull(E) /\ E.cx = size
                  THEN [E EXCEPT !.cy = @ + 1, !.cx = 0]
                  ELSE E
        ELSE IF key = ARROW_UP
        THEN IF E.cy > 0 THEN [E EXCEPT !.cy = @ - 1] ELSE E
        ELSE E
      rowlen == IF E1.cy >= E1.numrows THEN 0 ELSE E1.row[E1.cy + 1].size
  IN IF E1.cx > rowlen THEN [E1 EXCEPT !.cx = rowlen] ELSE E1

\* Whether editorMoveCursor(key) reads the size of a row outside
\* [0, numrows): through the pointer of line 1526 in the ARROW_RIGHT case
\* (lines 1543-1545), or as E.row[E.cy] after the decrement of line 1533.
MoveReadsOutside(E, key) ==
  \/ key = ARROW_RIGHT /\ ~MoveRowIsNull(E) /\ ~RowInRange(E, E.cy)
  \/ key = ARROW_LEFT /\ E.cx = 0 /\ E.cy > 0 /\ ~RowInRange(E, E.cy - 1)

\* while (times--) editorMoveCursor(key)
RECURSIVE MoveTimes(_, _, _, _)
MoveTimes(E, key, times, g) ==
  IF times = 0 THEN E ELSE MoveTimes(editorMoveCursor(E, key, g), key, times - 1, g)

\* The cases of editorProcessKeyPress's switch that neither quit, save nor
\* search; the caller resets quit_times after them.
KeyCase(E, c, g) ==
  IF c = CH_CR THEN editorInsertNewline(E)
  ELSE IF c = HOME_KEY THEN [E EXCEPT !.cx = 0]
  ELSE IF c = END_KEY
  THEN IF E.cy < E.numrows THEN [E EXCEPT !.cx = E.row[E.cy + 1].size] ELSE E
  ELSE IF c \in {BACKSPACE, CTRL_KEY(104), DEL_KEY}
  THEN editorDelChar(IF c = DEL_KEY THEN editorMoveCursor(E, ARROW_RIGHT, g) ELSE E)
  ELSE IF c = PAGE_UP
  THEN MoveTimes([E EXCEPT !.cy = E.rowoff], ARROW_UP, E.screenrows, g)
  ELSE IF c = PAGE_DOWN
  THEN LET cy1 == E.rowoff + E.screenrows - 1
       IN MoveTimes([E EXCEPT !.cy = IF cy1 > E.numrows THEN E.numrows ELSE cy1],
                    ARROW_DOWN, E.screenrows, g)
  ELSE IF c \in {ARROW_UP, ARROW_LEFT, ARROW_DOWN, ARROW_RIGHT}
  THEN editorMoveCursor(E, c, g)
  ELSE IF c \in {CTRL_KEY(108), CH_ESC} THEN E
  ELSE editorInsertChar(E, c)

\* Whether the case reads or writes row memory through a pointer outside
\* [0, numrows) (realloc, memmove and memcpy on what it finds there):
\* undefined behaviour.
DelCharOutside(E) ==
  E.cy # E.numrows /\ ~(E.cx = 0 /\ E.cy = 0) /\ ~RowInRange(E, E.cy)

WritesOutside(E, c, g) ==
  IF c = CH_CR THEN E.cx # 0 /\ ~RowInRange(E, E.cy)
  ELSE IF c \in {BACKSPACE, CTRL_KEY(104)} THEN DelCharOutside(E)
  ELSE IF c = DEL_KEY THEN DelCharOutside(editorMoveCursor(E, ARROW_RIGHT, g))
  ELSE IF c \in {HOME_KEY, END_KEY, PAGE_UP, PAGE_DOWN, ARROW_UP, ARROW_LEFT,
                 ARROW_DOWN, ARROW_RIGHT, CTRL_KEY(108), CH_ESC} THEN FALSE
  ELSE E.cy > E.numrows

(***************************************************************************)
(* file i/o                                                                *)
(***************************************************************************)
\* strrchr(s, ch): the 0-based index of the last ch in s, or -1
StrRChr(s, ch) ==
  LET at == {k \in 1..Len(s) : s[k] = ch}
  IN IF at = {} THEN -1 ELSE (CHOOSE k \in at : \A m \in at : m <= k) - 1

\* strlen of a NUL-terminated buffer whose bytes before the terminator are s
StrLen(s) ==
  LET nul == {k \in 1..Len(s) : s[k] = CH_NUL}
  IN IF nul = {} THEN Len(s) ELSE (CHOOSE k \in nul : \A m \in nul : k <= m) - 1

\* strstr(hay, needle) - hay: the 0-based offset of the first match, or -1
StrStr(hay, needle) ==
  LET n == StrLen(hay)
      m == StrLen(needle)
      at == {o \in 0..(n - m) : \A k \in 1..m : hay[o + k] = needle[k]}
  IN IF at = {} THEN -1 ELSE CHOOSE o \in at : \A q \in at : o <= q

\* Whether the filename selects the HLDB entry (lines 595-606).
SyntaxMatches(filename) ==
  LET dot == StrRChr(filename, CH_DOT)
      ext == IF dot = -1 THEN NULL ELSE SubSeq(filename, dot + 1, Len(filename))
  IN \E i \in 1..Len(HLDB.filematch) :
       LET fm == HLDB.filematch[i]
           is_ext == fm[1] = CH_DOT
       IN \/ is_ext /\ ext # NULL /\ ext = fm
          \/ ~is_ext /\ StrStr(filename, fm) # -1

editorSelectSyntaxHighlight(E) ==
  IF E.filename = NULL THEN [E EXCEPT !.syntax = "NULL"]
  ELSE IF SyntaxMatches(E.filename)
  THEN [E EXCEPT !.syntax = HLDB.filetype,
                 !.row = [k \in 1..Len(E.row) |->
                            [E.row[k] EXCEPT !.hl =
                               editorUpdateSyntax(HLDB.filetype, E.row[k].render,
                                                  E.row[k].rsize)]]]
  ELSE [E EXCEPT !.syntax = "NULL"]

\* totlen of editorRowsToString
RECURSIVE RowsTotLen(_, _)
RowsTotLen(E, j) ==
  IF j >= E.numrows THEN 0 ELSE E.row[j + 1].size + 1 + RowsTotLen(E, j + 1)

\* The bytes editorRowsToString builds: each row's bytes and a newline.
RECURSIVE RowsToStringFrom(_, _)
RowsToStringFrom(E, j) ==
  IF j >= E.numrows THEN <<>>
  ELSE E.row[j + 1].chars \o <<10>> \o RowsToStringFrom(E, j + 1)

editorRowsToString(E) == [buf |-> RowsToStringFrom(E, 0), buflen |-> RowsTotLen(E, 0)]

\* getline(): the first line of the unread bytes, its newline included
RECURSIVE GetLine(_)
GetLine(bytes) ==
  IF bytes = <<>> THEN <<>>
  ELSE IF Head(bytes) = 10 THEN <<10>>
  ELSE <<Head(bytes)>> \o GetLine(Tail(bytes))

\* while (linelen > 0 && (line[linelen-1] == '\r' || line[linelen-1] == '\n'))
RECURSIVE StripLineEnd(_)
StripLineEnd(line) ==
  IF Len(line) > 0 /\ line[Len(line)] \in {CH_CR, 10}
  THEN StripLineEnd(SubSeq(line, 1, Len(line) - 1))
  ELSE line

\* The getline loop of editorOpen over the bytes of the file.
RECURSIVE OpenLoop(_, _)
OpenLoop(E, bytes) ==
  IF bytes = <<>> THEN E
  ELSE LET line == GetLine(bytes)
           kept == StripLineEnd(line)
       IN OpenLoop(editorInsertRow(E, E.numrows, kept, Len(kept)),
                   SubSeq(bytes, Len(line) + 1, Len(bytes)))

\* editorOpen(filename) when fopen succeeds on a file holding `bytes`
editorOpen(E, filename, bytes) ==
  LET E1 == editorSelectSyntaxHighlight([E EXCEPT !.filename = filename])
  IN [OpenLoop(E1, bytes) EXCEPT !.dirty = 0]

\* editorSave from line 1023 on with line 1039 run on every path: a variant
\* the properties about a failed save must tell from the source.
SaveTailClears(E, io) ==
  IF io = "written"
  THEN editorSetStatusMessage([E EXCEPT !.dirty = 0], "%d bytes written to disk",
                              <<editorRowsToString(E).buflen>>)
  ELSE editorSetStatusMessage([E EXCEPT !.dirty = 0], "Can't save! I/O error: %s", <<>>)

\* editorSave from line 1023 on, filename set; io is how far the I/O got.
SaveTail(E, io) ==
  IF io = "written"
  THEN editorSetStatusMessage([E EXCEPT !.dirty = 0], "%d bytes written to disk",
                              <<editorRowsToString(E).buflen>>)
  ELSE editorSetStatusMessage(E, "Can't save! I/O error: %s", <<>>)

(***************************************************************************)
(* find                                                                    *)
(***************************************************************************)
\* The for loop without lines 1098-1103, ending at either end of the rows:
\* a variant the properties about the cyclic scan must tell from the source.
RECURSIVE FindLoopNoWrap(_, _, _, _, _)
FindLoopNoWrap(E, query, current, dir, i) ==
  IF i >= E.numrows THEN -1
  ELSE LET c2 == current + dir
       IN IF c2 = -1 \/ c2 = E.numrows THEN -1
          ELSE IF StrStr(E.row[c2 + 1].render, query) # -1 THEN c2
          ELSE FindLoopNoWrap(E, query, c2, dir, i + 1)

\* The for loop of editorFindCallback: the row of the first hit, or -1.
RECURSIVE FindLoop(_, _, _, _, _)
FindLoop(E, query, current, dir, i) ==
  IF i >= E.numrows THEN -1
  ELSE LET c1 == current + dir
           c2 == IF c1 = -1 THEN E.numrows - 1
                 ELSE IF c1 = E.numrows THEN 0 ELSE c1
       IN IF StrStr(E.row[c2 + 1].render, query) # -1 THEN c2
          ELSE FindLoop(E, query, c2, dir, i + 1)

\* editorFindCallback with the memset of line 1128 one byte longer: a
\* variant the properties about the marked span must tell from the source.
editorFindCallbackLongSpan(S, query, key) ==
  LET E0 == IF S.saved_hl # NULL
            THEN [S.E EXCEPT !.row[S.saved_hl_line + 1].hl = S.saved_hl]
            ELSE S.E
      S0 == [S EXCEPT !.E = E0, !.saved_hl = NULL]
      S1 == IF key \in {ARROW_RIGHT, ARROW_DOWN} THEN [S0 EXCEPT !.direction = 1]
            ELSE IF key \in {ARROW_LEFT, ARROW_UP} THEN [S0 EXCEPT !.direction = -1]
            ELSE [S0 EXCEPT !.last_match = -1, !.direction = 1]
      dir == IF S1.last_match = -1 THEN 1 ELSE S1.direction
      hit == FindLoop(E0, query, S1.last_match, dir, 0)
      row == E0.row[hit + 1]
      off == StrStr(row.render, query)
  IN IF key \in {CH_CR, CH_ESC}
     THEN [S0 EXCEPT !.last_match = -1, !.direction = 1]
     ELSE IF hit = -1 THEN [S1 EXCEPT !.direction = dir]
     ELSE [S1 EXCEPT !.direction = dir,
                     !.last_match = hit,
                     !.saved_hl_line = hit,
                     !.saved_hl = row.hl,
                     !.E = [E0 EXCEPT !.cy = hit,
                                      !.cx = editorRowRxToCx(row, off),
                                      !.rowoff = E0.numrows,
                                      !.row[hit + 1].hl =
                                         MemSet(row.hl, off, HL_MATCH, StrLen(query) + 1)]]

\* editorFindCallback without the memcpy of line 1070: a variant the
\* properties about the overlay must tell from the source.
editorFindCallbackNoRestore(S, query, key) ==
  LET E0 == S.E
      S0 == [S EXCEPT !.E = E0, !.saved_hl = NULL]
      S1 == IF key \in {ARROW_RIGHT, ARROW_DOWN} THEN [S0 EXCEPT !.direction = 1]
            ELSE IF key \in {ARROW_LEFT, ARROW_UP} THEN [S0 EXCEPT !.direction = -1]
            ELSE [S0 EXCEPT !.last_match = -1, !.direction = 1]
      dir == IF S1.last_match = -1 THEN 1 ELSE S1.direction
      hit == FindLoop(E0, query, S1.last_match, dir, 0)
      row == E0.row[hit + 1]
      off == StrStr(row.render, query)
  IN IF key \in {CH_CR, CH_ESC}
     THEN [S0 EXCEPT !.last_match = -1, !.direction = 1]
     ELSE IF hit = -1 THEN [S1 EXCEPT !.direction = dir]
     ELSE [S1 EXCEPT !.direction = dir,
                     !.last_match = hit,
                     !.saved_hl_line = hit,
                     !.saved_hl = row.hl,
                     !.E = [E0 EXCEPT !.cy = hit,
                                      !.cx = editorRowRxToCx(row, off),
                                      !.rowoff = E0.numrows,
                                      !.row[hit + 1].hl =
                                         MemSet(row.hl, off, HL_MATCH, StrLen(query))]]

\* editorFindCallback whose else branch (lines 1086-1089) leaves last_match
\* alone: a variant the properties about the keys of the search must tell
\* from the source.
editorFindCallbackKeepsMatch(S, query, key) ==
  LET E0 == IF S.saved_hl # NULL
            THEN [S.E EXCEPT !.row[S.saved_hl_line + 1].hl = S.saved_hl]
            ELSE S.E
      S0 == [S EXCEPT !.E = E0, !.saved_hl = NULL]
      S1 == IF key \in {ARROW_RIGHT, ARROW_DOWN} THEN [S0 EXCEPT !.direction = 1]
            ELSE IF key \in {ARROW_LEFT, ARROW_UP} THEN [S0 EXCEPT !.direction = -1]
            ELSE [S0 EXCEPT !.direction = 1]
      dir == IF S1.last_match = -1 THEN 1 ELSE S1.direction
      hit == FindLoop(E0, query, S1.last_match, dir, 0)
      row == E0.row[hit + 1]
      off == StrStr(row.render, query)
  IN IF key \in {CH_CR, CH_ESC}
     THEN [S0 EXCEPT !.last_match = -1, !.direction = 1]
     ELSE IF hit = -1 THEN [S1 EXCEPT !.direction = dir]
     ELSE [S1 EXCEPT !.direction = dir,
                     !.last_match = hit,
                     !.saved_hl_line = hit,
                     !.saved_hl = row.hl,
                     !.E = [E0 EXCEPT !.cy = hit,
                                      !.cx = editorRowRxToCx(row, off),
                                      !.rowoff = E0.numrows,
                                      !.row[hit + 1].hl =
                                         MemSet(row.hl, off, HL_MATCH, StrLen(query))]]

\* editorFindCallback(query, key) on S = [E, last_match, direction,
\* saved_hl_line, saved_hl], the global and the function's statics.
editorFindCallback(S, query, key) ==
  LET E0 == IF S.saved_hl # NULL
            THEN [S.E EXCEPT !.row[S.saved_hl_line + 1].hl = S.saved_hl]
            ELSE S.E
      S0 == [S EXCEPT !.E = E0, !.saved_hl = NULL]
      S1 == IF key \in {ARROW_RIGHT, ARROW_DOWN} THEN [S0 EXCEPT !.direction = 1]
            ELSE IF key \in {ARROW_LEFT, ARROW_UP} THEN [S0 EXCEPT !.direction = -1]
            ELSE [S0 EXCEPT !.last_match = -1, !.direction = 1]
      dir == IF S1.last_match = -1 THEN 1 ELSE S1.direction
      hit == FindLoop(E0, query, S1.last_match, dir, 0)
      row == E0.row[hit + 1]
      off == StrStr(row.render, query)
  IN IF key \in {CH_CR, CH_ESC}
     THEN [S0 EXCEPT !.last_match = -1, !.direction = 1]
     ELSE IF hit = -1 THEN [S1 EXCEPT !.direction = dir]
     ELSE [S1 EXCEPT !.direction = dir,
                     !.last_match = hit,
                     !.saved_hl_line = hit,
                     !.saved_hl = row.hl,
                     !.E = [E0 EXCEPT !.cy = hit,
                                      !.cx = editorRowRxToCx(row, off),
                                      !.rowoff = E0.numrows,
                                      !.row[hit + 1].hl =
                                         MemSet(row.hl, off, HL_MATCH, StrLen(query))]]

\* The buffer of editorPrompt after key c (lines 1481-1515).
PromptBuf(buf, c) ==
  IF c \in {DEL_KEY, CTRL_KEY(104), BACKSPACE}
  THEN IF Len(buf) # 0 THEN SubSeq(buf, 1, Len(buf) - 1) ELSE buf
  ELSE IF c = CH_ESC \/ c = CH_CR THEN buf
  ELSE IF ~iscntrl(c) /\ c < 128 THEN Append(buf, c % 256)
  ELSE buf

\* Whether key c makes editorPrompt return.
PromptEnds(buf, c) == c = CH_ESC \/ (c = CH_CR /\ Len(buf) # 0)

(***************************************************************************)
(* The process: main(), the main loop and the prompts                      *)
(*                                                                         *)
(* pc is where the single thread of control stands:                        *)
(*   "enableRawMode", "rawMode", "initEditor", "editorOpen"                *)
(*                 the calls of main(); "rawMode" is inside enableRawMode, *)
(*                 between atexit() and tcsetattr()                        *)
(*   "key"         main loop: the frame is drawn, editorProcessKeyPress    *)
(*                 is blocked in editorReadKey                             *)
(*   "prompt_key"  editorPrompt: the frame is drawn, editorReadKey blocks  *)
(*   "terminated", "hung"   the ends of the process: exit() has run the    *)
(*                 atexit handler; the memory of the process is gone and   *)
(*                 the variables that held it are back at their initial    *)
(*                 values                                                  *)
(*   "undefined"   the process wrote through a pointer outside the rows    *)
(*                 array; what it does from there on is not defined and    *)
(*                 the model follows it no further                         *)
(* A step of the main loop is one key: editorProcessKeyPress handles it    *)
(* and the loop draws the next frame (editorRefreshScreen) before it       *)
(* blocks again.                                                           *)
(* prompt holds editorPrompt's buffer and which callback it was given,     *)
(* find_saved the locals of editorFind, term the terminal and exit() state:*)
(* the settings in force, whether the handler is registered, how often raw *)
(* mode was set and restored, whether die() cleared the screen and what it *)
(* gave perror, and the exit status.                                       *)
(* hist records, for the properties, the case of editorProcessKeyPress     *)
(* that handled the last key (key), how many Ctrl-Q it read in a row       *)
(* (qpresses) and how many warnings those set (warnings); when that case   *)
(* was a search that has ended, also where the search had left the cursor  *)
(* (cx, cy) and whether a row was still overlaid (overlay).                *)
(***************************************************************************)
VARIABLES E, quit_times, last_match, direction, saved_hl_line, saved_hl,
          pc, prompt, find_saved, term, hist

vars == <<E, quit_times, last_match, direction, saved_hl_line, saved_hl,
          pc, prompt, find_saved, term, hist>>

findStatics == <<last_match, direction, saved_hl_line, saved_hl>>

\* The bytes typed as text, the names given on the command line and the
\* contents of the file opened.
TypedChars == {CH_TAB, 49}
FileNames == {<<49, 46, 99>>}
Files == {<<CH_TAB, CH_CR, 10, 49>>}
\* What reading the size of E.row[numrows] may yield: the slot is a stale erow
\* left by editorDelRow, which never shrinks the array, or memory past it.
Garbage == 0..MaxLen
\* The cursor keys read it only with the cursor at or below row numrows.
GarbageAt(E0) == IF E0.cy >= E0.numrows THEN Garbage ELSE {0}

NoPrompt == [callback |-> "none", buf |-> <<>>]
NoFindSaved == [cx |-> 0, cy |-> 0, coloff |-> 0, rowoff |-> 0]
NoStatus == [fmt |-> "", arg |-> <<>>]
NoHist == [key |-> "none", qpresses |-> 0, warnings |-> 0]
Handled(key) == [key |-> key, qpresses |-> 0, warnings |-> 0]

\* The zero-initialised global.
ZeroE ==
  [cx |-> 0, cy |-> 0, rx |-> 0, rowoff |-> 0, coloff |-> 0, screenrows |-> 0,
   screencols |-> 0, numrows |-> 0, row |-> <<>>, dirty |-> 0, filename |-> NULL,
   statusmsg |-> NoStatus, syntax |-> "NULL"]

\* initEditor() when getWindowSize reports rows x cols
initEditor(E0, rows, cols) ==
  [E0 EXCEPT !.cx = 0, !.cy = 0, !.rx = 0, !.rowoff = 0, !.coloff = 0,
             !.numrows = 0, !.row = <<>>, !.dirty = 0, !.filename = NULL,
             !.statusmsg = NoStatus, !.syntax = "NULL",
             !.screenrows = rows - 2, !.screencols = cols]

\* editorRefreshScreen(): editorScroll, then the frame, which is written to
\* the terminal and changes nothing of the editor.
editorRefreshScreen(E0) == editorScroll(E0)

\* The raw content of the document: the bytes of each row.
RawRows(E0) == [k \in 1..E0.numrows |-> E0.row[k].chars]

Init ==
  /\ E = ZeroE
  /\ quit_times = KILO_QUIT_TIMES
  /\ last_match = -1
  /\ direction = 1
  /\ saved_hl_line = 0
  /\ saved_hl = NULL
  /\ pc = "enableRawMode"
  /\ prompt = NoPrompt
  /\ find_saved = NoFindSaved
  /\ term = [termios |-> "orig", atexit |-> FALSE, status |-> -1,
             acquired |-> 0, restored |-> 0, cleared |-> FALSE, perror |-> ""]
  /\ hist = NoHist

\* exit(status): the handler atexit registered, disableRawMode, runs before
\* the process ends.  When its tcsetattr fails it calls die(), which calls
\* exit() from inside exit(): undefined behaviour, after which the process
\* ends without running the handler again or never ends.
\* t is the terminal and exit() state when exit is called.
ExitFrom(status, t) ==
  /\ IF ~t.atexit
     THEN pc' = "terminated" /\ term' = [t EXCEPT !.status = status]
     ELSE \E set \in {"ok", "fail"}, ub \in {"terminated", "hung"} :
            IF set = "ok"
            THEN /\ pc' = "terminated"
                 /\ term' = [t EXCEPT !.status = status, !.termios = "orig",
                                      !.restored = @ + 1]
            ELSE /\ pc' = ub
                 /\ term' = [t EXCEPT !.status = 1, !.cleared = TRUE,
                                      !.perror = "tcsetattr"]
  /\ E' = ZeroE
  /\ quit_times' = KILO_QUIT_TIMES
  /\ last_match' = -1
  /\ direction' = 1
  /\ saved_hl_line' = 0
  /\ saved_hl' = NULL
  /\ prompt' = NoPrompt
  /\ find_saved' = NoFindSaved

exit(status) == ExitFrom(status, term)

\* die(s): clear the screen, perror(s), exit(1)
die(s) == ExitFrom(1, [term EXCEPT !.cleared = TRUE, !.perror = s])

\* enableRawMode(): tcgetattr, atexit(disableRawMode), tcsetattr
EnableRawMode ==
  /\ pc = "enableRawMode"
  /\ \E get \in {"ok", "fail"} :
       IF get = "fail" THEN die("tcgetattr")
       ELSE /\ pc' = "rawMode"
            /\ term' = [term EXCEPT !.atexit = TRUE]
            /\ UNCHANGED <<E, quit_times, findStatics, prompt, find_saved>>
  /\ UNCHANGED hist

\* the tcsetattr of enableRawMode, after atexit(disableRawMode)
SetRawMode ==
  /\ pc = "rawMode"
  /\ \E set \in {"ok", "fail"} :
       IF set = "fail" THEN die("tcsetattr")
       ELSE /\ pc' = "initEditor"
            /\ term' = [term EXCEPT !.termios = "raw", !.acquired = @ + 1]
            /\ UNCHANGED <<E, quit_times, findStatics, prompt, find_saved>>
  /\ UNCHANGED hist

InitEditor ==
  /\ pc = "initEditor"
  /\ \E ws \in {"ok", "fail"} :
       IF ws = "fail" THEN die("getWindowSize")
       ELSE /\ E' = initEditor(E, WinRows, WinCols)
            /\ pc' = "editorOpen"
            /\ UNCHANGED <<term, quit_times, findStatics, prompt, find_saved>>
  /\ UNCHANGED hist

HelpMessage == "HELP: Ctrl-s = save | Ctrl-q = quit | Ctrl-f = find"

\* main() from `if (argc >= 2)` to the first frame: no argument, a file that
\* opens, or a file fopen fails on
OpenFrom(names, files) ==
  /\ pc = "editorOpen"
  /\ \E arg \in {"none", "opens", "fails"} :
       CASE arg = "none" ->
              /\ E' = editorRefreshScreen(editorSetStatusMessage(E, HelpMessage, <<>>))
              /\ pc' = "key"
              /\ UNCHANGED <<term, quit_times, findStatics, prompt, find_saved>>
         [] arg = "opens" ->
              \E name \in names, bytes \in files :
                /\ E' = editorRefreshScreen(editorSetStatusMessage(
                                              editorOpen(E, name, bytes), HelpMessage, <<>>))
                /\ pc' = "key"
                /\ UNCHANGED <<term, quit_times, findStatics, prompt, find_saved>>
         [] arg = "fails" -> die("fopen")
  /\ UNCHANGED hist

EditorOpen == OpenFrom(FileNames, Files)

\* read() fails with an errno other than EAGAIN in editorReadKey
ReadFails ==
  /\ pc \in {"key", "prompt_key"}
  /\ die("read")
  /\ UNCHANGED hist

\* The test of line 1584 with quit_times > 1, and without its E.dirty:
\* variants the properties about quitting must tell from the source.
QuitWarnsOffByOne(E0, qt) == E0.dirty # 0 /\ qt > 1

QuitWarnsIgnoresDirty(E0, qt) == qt > 0

\* The test of line 1584: warn instead of quitting.
QuitWarns(E0, qt) == E0.dirty # 0 /\ qt > 0

\* case CTRL_KEY('q')
KeyQuit ==
  /\ pc = "key"
  /\ IF QuitWarns(E, quit_times)
     THEN /\ E' = editorRefreshScreen(editorSetStatusMessage(E,
                    "WARNING!!! File has unsaved changes. Press ctrl-q %d more times to quit.",
                    <<quit_times>>))
          /\ quit_times' = quit_times - 1
          /\ hist' = [key |-> "ctrl-q", qpresses |-> hist.qpresses + 1,
                      warnings |-> hist.warnings + 1]
          /\ UNCHANGED <<pc, term, findStatics, prompt, find_saved>>
     ELSE /\ exit(0)
          /\ hist' = [hist EXCEPT !.key = "ctrl-q", !.qpresses = @ + 1]

\* The head of editorPrompt's loop: the status message and the frame.
PromptFrame(E0, callback, buf) ==
  editorRefreshScreen(editorSetStatusMessage(E0,
    IF callback = "find" THEN "Search: %s (Use ESC/Arrows/Enter)" ELSE "Save as: %s",
    buf))

\* How far the I/O of editorSave gets: open, ftruncate or write fails, or
\* the whole buffer is written.
SaveOutcomes == {"open fails", "ftruncate fails", "write fails", "written"}

\* case CTRL_KEY('s'), to the prompt when there is no filename
KeySave ==
  /\ pc = "key"
  /\ IF E.filename = NULL
     THEN /\ prompt' = [callback |-> "save", buf |-> <<>>]
          /\ E' = PromptFrame(E, "save", <<>>)
          /\ pc' = "prompt_key"
          /\ hist' = Handled("save as")
          /\ UNCHANGED quit_times
     ELSE \E io \in SaveOutcomes :
            /\ E' = editorRefreshScreen(SaveTail(E, io))
            /\ quit_times' = KILO_QUIT_TIMES
            /\ hist' = Handled(IF io = "written" THEN "saved" ELSE "save failed")
            /\ UNCHANGED <<pc, prompt>>
  /\ UNCHANGED <<findStatics, find_saved, term>>

\* case CTRL_KEY('f'): editorFind() to its prompt
KeyFind ==
  /\ pc = "key"
  /\ find_saved' = [cx |-> E.cx, cy |-> E.cy, coloff |-> E.coloff,
                    rowoff |-> E.rowoff]
  /\ prompt' = [callback |-> "find", buf |-> <<>>]
  /\ E' = PromptFrame(E, "find", <<>>)
  /\ pc' = "prompt_key"
  /\ hist' = Handled("find")
  /\ UNCHANGED <<quit_times, findStatics, term>>

\* The keys of the other cases.
MoveKeys ==
  {HOME_KEY, END_KEY, PAGE_UP, PAGE_DOWN, ARROW_UP, ARROW_LEFT, ARROW_DOWN,
   ARROW_RIGHT}

OtherKeys ==
  TypedChars \cup MoveKeys
    \cup {CH_CR, BACKSPACE, DEL_KEY, CTRL_KEY(108)}

\* The bounds of the model on the document the keys build.
JoinFits(E0) ==
  (E0.cx = 0 /\ E0.cy >= 1 /\ E0.cy < E0.numrows)
     => E0.row[E0.cy].size + E0.row[E0.cy + 1].size <= MaxLen

KeyInBounds(E0, c, g) ==
  IF c \in TypedChars \cup {CTRL_KEY(106)}
  THEN /\ E0.dirty < MaxDirty
       /\ IF E0.cy < E0.numrows THEN E0.row[E0.cy + 1].size < MaxLen
          ELSE E0.numrows < MaxRows
  ELSE IF c = CH_CR
  THEN /\ E0.dirty < MaxDirty
       /\ IF E0.cy <= E0.numrows THEN E0.numrows < MaxRows ELSE E0.cy <= MaxRows
  ELSE IF c \in {BACKSPACE, CTRL_KEY(104)}
  THEN E0.dirty < MaxDirty /\ JoinFits(E0)
  ELSE IF c = DEL_KEY
  THEN E0.dirty < MaxDirty /\ JoinFits(editorMoveCursor(E0, ARROW_RIGHT, g))
  ELSE TRUE

\* Every other case of the switch, and the reset of quit_times after it.
KeyFrom(keys) ==
  /\ pc = "key"
  /\ \E c \in keys, g \in GarbageAt(E) :
       /\ KeyInBounds(E, c, g)
       /\ IF WritesOutside(E, c, g)
          THEN pc' = "undefined" /\ UNCHANGED <<E, quit_times, hist>>
          ELSE /\ E' = editorRefreshScreen(KeyCase(E, c, g))
               /\ quit_times' = KILO_QUIT_TIMES
               /\ hist' = Handled("other")
               /\ UNCHANGED pc
  /\ UNCHANGED <<findStatics, prompt, find_saved, term>>

KeyOther == KeyFrom(OtherKeys)

KeyMove == KeyFrom(MoveKeys)

PromptKeys ==
  {49, CH_TAB, BACKSPACE, CTRL_KEY(104), DEL_KEY, CH_ESC, CH_CR, ARROW_UP,
   ARROW_LEFT, ARROW_DOWN, ARROW_RIGHT}

PromptKeyInBounds(buf, c) == (~iscntrl(c) /\ c < 128) => Len(buf) < MaxQuery

\* The else branch of editorFind with saved_cy alone: a variant the
\* properties about a cancelled search must tell from the source.
FindRestoreRowOnly(E0, saved) == [E0 EXCEPT !.cy = saved.cy]

\* The else branch of editorFind (lines 1151-1154).
FindRestore(E0, saved) ==
  [E0 EXCEPT !.cx = saved.cx, !.cy = saved.cy, !.coloff = saved.coloff,
             !.rowoff = saved.rowoff]

\* A key in the search prompt: the buffer, the callback and, when the prompt
\* ends, the rest of editorFind and of editorProcessKeyPress.  The query is
\* kept to max bytes.
PromptFindFrom(keys, max) ==
  /\ pc = "prompt_key"
  /\ prompt.callback = "find"
  /\ \E c \in keys :
       LET buf == PromptBuf(prompt.buf, c)
           ends == PromptEnds(prompt.buf, c)
           E1 == IF ends THEN editorSetStatusMessage(E, "", <<>>) ELSE E
           S == editorFindCallback(
                  [E |-> E1, last_match |-> last_match, direction |-> direction,
                   saved_hl_line |-> saved_hl_line, saved_hl |-> saved_hl],
                  buf, c)
       IN /\ (~iscntrl(c) /\ c < 128) => Len(prompt.buf) < max
          /\ last_match' = S.last_match
          /\ direction' = S.direction
          /\ saved_hl_line' = S.saved_hl_line
          /\ saved_hl' = S.saved_hl
          /\ IF ~ends
             THEN /\ E' = PromptFrame(S.E, "find", buf)
                  /\ prompt' = [prompt EXCEPT !.buf = buf]
                  /\ UNCHANGED <<pc, quit_times, find_saved, hist>>
             ELSE /\ E' = editorRefreshScreen(
                            IF c = CH_ESC THEN FindRestore(S.E, find_saved) ELSE S.E)
                  /\ prompt' = NoPrompt
                  /\ find_saved' = NoFindSaved
                  /\ quit_times' = KILO_QUIT_TIMES
                  /\ pc' = "key"
                  /\ hist' = [key |-> IF c = CH_ESC THEN "find cancelled"
                                      ELSE "find committed",
                              qpresses |-> 0, warnings |-> 0,
                              cx |-> E.cx, cy |-> E.cy,
                              overlay |-> saved_hl # NULL]
  /\ UNCHANGED term

PromptKeyFind == PromptFindFrom(PromptKeys, MaxQuery)

\* A key in the save-as prompt and, when the prompt ends, the rest of
\* editorSave and of editorProcessKeyPress.
PromptSaveFrom(keys, max) ==
  /\ pc = "prompt_key"
  /\ prompt.callback = "save"
  /\ \E c \in keys :
       LET buf == PromptBuf(prompt.buf, c)
           ends == PromptEnds(prompt.buf, c)
           E1 == IF ends THEN editorSetStatusMessage(E, "", <<>>) ELSE E
           E2 == editorSelectSyntaxHighlight([E1 EXCEPT !.filename = buf])
       IN /\ (~iscntrl(c) /\ c < 128) => Len(prompt.buf) < max
          /\ IF ~ends
             THEN /\ prompt' = [prompt EXCEPT !.buf = buf]
                  /\ E' = PromptFrame(E, "save", buf)
                  /\ UNCHANGED <<pc, quit_times, hist>>
             ELSE /\ prompt' = NoPrompt
                  /\ quit_times' = KILO_QUIT_TIMES
                  /\ pc' = "key"
                  /\ IF c = CH_ESC
                     THEN /\ E' = editorRefreshScreen(
                                    editorSetStatusMessage(E1, "Save cancelled", <<>>))
                          /\ hist' = Handled("save cancelled")
                     ELSE \E io \in SaveOutcomes :
                            /\ E' = editorRefreshScreen(SaveTail(E2, io))
                            /\ hist' = Handled(IF io = "written" THEN "saved"
                                               ELSE "save failed")
  /\ UNCHANGED <<findStatics, find_saved, term>>

PromptKeySave == PromptSaveFrom(PromptKeys, MaxQuery)

(***************************************************************************)
(* Spec: the whole process, with every key but the search (Ctrl-F).        *)
(***************************************************************************)
Next ==
  \/ EnableRawMode
  \/ SetRawMode
  \/ InitEditor
  \/ EditorOpen
  \/ ReadFails
  \/ KeyQuit
  \/ KeySave
  \/ KeyOther
  \/ PromptKeySave

Spec == Init /\ [][Next]_vars

(***************************************************************************)
(* SpecQuit: the whole process with every case of editorProcessKeyPress:   *)
(* quit, save, search, both prompts, and of the other keys one that types, *)
(* Enter, Backspace and one that moves the cursor.                         *)
(***************************************************************************)
QuitKeys == {49, CH_CR, BACKSPACE, ARROW_LEFT}

KeyText == KeyFrom(QuitKeys)

QuitNext ==
  \/ EnableRawMode
  \/ SetRawMode
  \/ InitEditor
  \/ EditorOpen
  \/ ReadFails
  \/ KeyQuit
  \/ KeySave
  \/ KeyFind
  \/ KeyText
  \/ PromptKeySave
  \/ PromptKeyFind

SpecQuit == Init /\ [][QuitNext]_vars

(***************************************************************************)
(* SpecSave: the process with the keys that build a document, Ctrl-S and   *)
(* the save-as prompt, where the name typed may be one that selects the C  *)
(* profile (".c").                                                         *)
(***************************************************************************)
NameKeys == {CH_DOT, 99, BACKSPACE, CH_ESC, CH_CR}

MaxName == 2

PromptKeyName == PromptSaveFrom(NameKeys, MaxName)

SaveNext ==
  \/ EnableRawMode
  \/ SetRawMode
  \/ InitEditor
  \/ EditorOpen
  \/ ReadFails
  \/ KeySave
  \/ KeyText
  \/ PromptKeyName

SpecSave == Init /\ [][SaveNext]_vars

(***************************************************************************)
(* SpecFind: the process on a file it only reads: the keys that move the   *)
(* cursor and the search (Ctrl-F) with its prompt.  The file has a line    *)
(* that alone holds "ab", three lines that hold a `b', one of them behind  *)
(* a tab that is not at the start of its line, and a digit the C profile   *)
(* highlights.                                                             *)
(***************************************************************************)
FindFiles == {<<98, 97, 98, 10, 97, CH_TAB, 98, 10, 49, 98, 10>>}

FindOpen == OpenFrom(FileNames, FindFiles)

\* The keys read in the search prompt, and the longest query typed.
SearchKeys ==
  {97, 98, CH_TAB, BACKSPACE, CH_ESC, CH_CR, ARROW_UP, ARROW_LEFT, ARROW_DOWN,
   ARROW_RIGHT}

MaxSearch == 2

PromptKeySearch == PromptFindFrom(SearchKeys, MaxSearch)

FindNext ==
  \/ EnableRawMode
  \/ SetRawMode
  \/ InitEditor
  \/ FindOpen
  \/ ReadFails
  \/ KeyMove
  \/ KeyFind
  \/ PromptKeySearch

SpecFind == Init /\ [][FindNext]_vars

(***************************************************************************)
(* SpecType: the process with keys that build a document, Ctrl-J among     *)
(* them: the byte 10, which no case of editorProcessKeyPress names; and    *)
(* Ctrl-S with the save-as prompt.                                         *)
(***************************************************************************)
KeyType == KeyFrom({49, CTRL_KEY(106), CH_CR, BACKSPACE, ARROW_LEFT, ARROW_UP})

TypeNext ==
  \/ EnableRawMode
  \/ SetRawMode
  \/ InitEditor
  \/ EditorOpen
  \/ ReadFails
  \/ KeySave
  \/ KeyType
  \/ PromptKeyName

SpecType == Init /\ [][TypeNext]_vars

(***************************************************************************)
(* SpecOps: single operations on a loaded document.  Init is the editor    *)
(* after editorOpen of a file of up to MaxRows lines that hold up to       *)
(* MaxLen bytes between them, newlines apart, with the cursor anywhere the *)
(* keys can put it; each action applies one                                *)
(* operation of the source.  E is the editor, pc the operation applied     *)
(* ("ops" before any), hist the editor the operation started from and its  *)
(* arguments and results.                                                  *)
(***************************************************************************)
Rows == UNION {[1..n -> TypedChars] : n \in 0..MaxLen}
RECURSIVE TotalLen(_)
TotalLen(rows) == IF rows = <<>> THEN 0 ELSE Len(Head(rows)) + TotalLen(Tail(rows))

Docs == {rows \in UNION {[1..n -> Rows] : n \in 0..MaxRows} : TotalLen(rows) <= MaxLen}

\* The file whose lines are rows, each ended by a newline.
RECURSIVE FileOf(_)
FileOf(rows) ==
  IF rows = <<>> THEN <<>> ELSE Head(rows) \o <<10>> \o FileOf(Tail(rows))

\* Bytes editorRowInsertChar is given, and the column offsets editorScroll
\* may find from the frame before.
OpsBytes == TypedChars \cup {CH_NUL}
PriorColoff == 0..(KILO_TAB_STOP + 1)

OpsUnchanged == UNCHANGED <<quit_times, findStatics, prompt, find_saved, term>>

OpsInit ==
  /\ \E rows \in Docs, name \in FileNames :
       \E cy \in 0..(Len(rows) + 1) :
         \E cx \in 0..(IF cy < Len(rows) THEN Len(rows[cy + 1]) ELSE 0) :
           E = [editorOpen(initEditor(ZeroE, WinRows, WinCols), name, FileOf(rows))
                  EXCEPT !.cy = cy, !.cx = cx]
  /\ hist = [before |-> E, at |-> 0, rx |-> 0, back |-> 0]
  /\ pc = "ops"
  /\ quit_times = KILO_QUIT_TIMES
  /\ last_match = -1
  /\ direction = 1
  /\ saved_hl_line = 0
  /\ saved_hl = NULL
  /\ prompt = NoPrompt
  /\ find_saved = NoFindSaved
  /\ term = [termios |-> "raw", atexit |-> TRUE, status |-> -1,
             acquired |-> 1, restored |-> 0, cleared |-> FALSE, perror |-> ""]

\* editorRowRxToCx(row, editorRowCxToRx(row, cx)) for the cursor's row and cx
OpsRoundTrip ==
  /\ pc = "ops"
  /\ E.cy < E.numrows
  /\ LET row == E.row[E.cy + 1]
         rx == editorRowCxToRx(row, E.cx)
     IN hist' = [hist EXCEPT !.at = E.cx, !.rx = rx, !.back = editorRowRxToCx(row, rx)]
  /\ pc' = "roundtrip"
  /\ UNCHANGED E
  /\ OpsUnchanged

\* editorRowInsertChar(&E.row[E.cy], p, ch)
OpsInsertChar ==
  /\ pc = "ops"
  /\ E.cy < E.numrows
  /\ \E p \in 0..E.row[E.cy + 1].size, ch \in OpsBytes :
       /\ E' = editorRowInsertChar(E, E.cy, p, ch)
       /\ hist' = [hist EXCEPT !.at = p]
  /\ pc' = "inserted"
  /\ OpsUnchanged

\* editorRowDelChar(&E.row[E.cy], p) at the position of the insertion
OpsDelChar ==
  /\ pc = "inserted"
  /\ E' = editorRowDelChar(E, E.cy, hist.at)
  /\ pc' = "deleted"
  /\ UNCHANGED hist
  /\ OpsUnchanged

\* The Enter key, with the frame after it.
OpsEnter ==
  /\ pc = "ops"
  /\ E.cy < E.numrows
  /\ E' = editorRefreshScreen(KeyCase(E, CH_CR, 0))
  /\ pc' = "split"
  /\ UNCHANGED hist
  /\ OpsUnchanged

\* The Backspace key right after Enter, with the frame after it.
OpsBackspace ==
  /\ pc = "split"
  /\ E' = editorRefreshScreen(KeyCase(E, BACKSPACE, 0))
  /\ pc' = "joined"
  /\ UNCHANGED hist
  /\ OpsUnchanged

\* editorScroll() with the offsets some earlier frame or a search hit left.
OpsScroll ==
  /\ pc = "ops"
  /\ \E rowoff \in 0..E.numrows, coloff \in PriorColoff :
       LET E0 == [E EXCEPT !.rowoff = rowoff, !.coloff = coloff]
       IN /\ E' = editorScroll(E0)
          /\ hist' = [hist EXCEPT !.before = E0]
  /\ pc' = "scrolled"
  /\ OpsUnchanged

OpsNext ==
  \/ OpsRoundTrip
  \/ OpsInsertChar
  \/ OpsDelChar
  \/ OpsEnter
  \/ OpsBackspace
  \/ OpsScroll

SpecOps == OpsInit /\ [][OpsNext]_vars

(***************************************************************************)
(* SpecKeys: one call of editorReadKey.  hist.input is what the terminal   *)
(* has still to deliver, hist.consumed what the call has read, hist.seq    *)
(* its array seq, hist.key what it returned.  Each read() either delivers  *)
(* the next byte or comes back without one: a timeout (0), EAGAIN or       *)
(* another error (-1).  hist.full says every read with a byte pending      *)
(* delivered it, hist.late that a read after ESC came back without a byte, *)
(* hist.retries counts the turns of the first loop.                        *)
(* pc: "read" in the loop of line 258, "seq" in the reads after ESC,       *)
(* "returned", "terminated".                                               *)
(***************************************************************************)
SeqSize == 3

\* The bytes the terminal sends: those of the escape sequences, the digits, a
\* byte next to the digits, a letter, and a byte over 127.
KeyBytes ==
  {CH_ESC, 91, 79, 126, 65, 66, 67, 68, 72, 70, 120, 58, 200} \cup (48..57)

KeyInputs ==
  {<<b>> : b \in KeyBytes \ {CH_ESC}}
    \cup {<<CH_ESC>> \o s : s \in UNION {[1..n -> KeyBytes] : n \in 0..SeqSize}}

\* What a read() does: deliver a byte, time out, fail with EAGAIN or fail
\* with another errno.
ReadOutcomes(input) ==
  (IF input # <<>> THEN {"byte"} ELSE {}) \cup {"timeout", "EAGAIN", "error"}

NRead(o) == IF o = "byte" THEN 1 ELSE IF o = "timeout" THEN 0 ELSE -1

\* The test `read(...) != 1` with 0 taken for a byte: a variant the
\* properties about timeouts must tell from the source.
ReadGotLoose(nread) == nread >= 0

\* The tests of lines 258, 268, 269 and 281, negated: read() stored a byte.
ReadGot(nread) == nread = 1

\* The value of a char that holds byte b, as an int: char is signed or
\* unsigned as the build has it.
CharValue(b) == IF b < 128 THEN {b} ELSE {b, b - 256}

\* What a char the read did not store may hold.
Unread == KeyBytes

\* Line 279-280: a third byte is read.
NeedsThird(seq) == seq[1] = 91 /\ seq[2] >= 48 /\ seq[2] <= 57

\* Lines 279-328 with case '1' and case '4' exchanged: a variant the
\* properties about the table must tell from the source.
SeqKeySwapped(seq) ==
  IF seq[1] = 91
  THEN IF seq[2] >= 48 /\ seq[2] <= 57
       THEN IF seq[3] = 126
            THEN CASE seq[2] = 49 -> END_KEY
                   [] seq[2] = 51 -> DEL_KEY
                   [] seq[2] = 52 -> HOME_KEY
                   [] seq[2] = 53 -> PAGE_UP
                   [] seq[2] = 54 -> PAGE_DOWN
                   [] seq[2] = 55 -> HOME_KEY
                   [] seq[2] = 56 -> END_KEY
                   [] OTHER -> CH_ESC
            ELSE CH_ESC
       ELSE CASE seq[2] = 65 -> ARROW_UP
              [] seq[2] = 66 -> ARROW_DOWN
              [] seq[2] = 67 -> ARROW_RIGHT
              [] seq[2] = 68 -> ARROW_LEFT
              [] seq[2] = 72 -> HOME_KEY
              [] seq[2] = 70 -> END_KEY
              [] OTHER -> CH_ESC
  ELSE IF seq[1] = 79
  THEN CASE seq[2] = 72 -> HOME_KEY
         [] seq[2] = 70 -> END_KEY
         [] OTHER -> CH_ESC
  ELSE CH_ESC

\* Lines 279-328: the key of the bytes in seq.
SeqKey(seq) ==
  IF seq[1] = 91
  THEN IF seq[2] >= 48 /\ seq[2] <= 57
       THEN IF seq[3] = 126
            THEN CASE seq[2] = 49 -> HOME_KEY
                   [] seq[2] = 51 -> DEL_KEY
                   [] seq[2] = 52 -> END_KEY
                   [] seq[2] = 53 -> PAGE_UP
                   [] seq[2] = 54 -> PAGE_DOWN
                   [] seq[2] = 55 -> HOME_KEY
                   [] seq[2] = 56 -> END_KEY
                   [] OTHER -> CH_ESC
            ELSE CH_ESC
       ELSE CASE seq[2] = 65 -> ARROW_UP
              [] seq[2] = 66 -> ARROW_DOWN
              [] seq[2] = 67 -> ARROW_RIGHT
              [] seq[2] = 68 -> ARROW_LEFT
              [] seq[2] = 72 -> HOME_KEY
              [] seq[2] = 70 -> END_KEY
              [] OTHER -> CH_ESC
  ELSE IF seq[1] = 79
  THEN CASE seq[2] = 72 -> HOME_KEY
         [] seq[2] = 70 -> END_KEY
         [] OTHER -> CH_ESC
  ELSE CH_ESC

MaxRetries == 2

KeysInit ==
  /\ \E input \in KeyInputs :
       hist = [all |-> input, input |-> input, consumed |-> <<>>, seq |-> <<>>,
               key |-> -1, full |-> TRUE, late |-> FALSE, retries |-> 0]
  /\ pc = "read"
  /\ E = initEditor(ZeroE, WinRows, WinCols)
  /\ quit_times = KILO_QUIT_TIMES
  /\ last_match = -1
  /\ direction = 1
  /\ saved_hl_line = 0
  /\ saved_hl = NULL
  /\ prompt = NoPrompt
  /\ find_saved = NoFindSaved
  /\ term = [termios |-> "raw", atexit |-> TRUE, status |-> -1,
             acquired |-> 1, restored |-> 0, cleared |-> FALSE, perror |-> ""]

\* hist after a read() with outcome o
AfterRead(o) ==
  [hist EXCEPT !.input = IF o = "byte" THEN Tail(@) ELSE @,
               !.consumed = IF o = "byte" THEN Append(@, Head(hist.input)) ELSE @,
               !.full = @ /\ (hist.input # <<>> => o = "byte")]

\* The byte a read() with outcome o leaves in the char it was given.
Stored(o) == IF o = "byte" THEN {Head(hist.input)} ELSE Unread

\* The loop of lines 258-262 and, for a byte that is not ESC, line 331.
KeysFirstRead ==
  /\ pc = "read"
  /\ \E o \in ReadOutcomes(hist.input) :
       IF ReadGot(NRead(o))
       THEN \E c \in Stored(o) :
              IF c = CH_ESC
              THEN /\ pc' = "seq"
                   /\ hist' = AfterRead(o)
              ELSE /\ pc' = "returned"
                   /\ \E key \in CharValue(c) :
                        hist' = [AfterRead(o) EXCEPT !.key = key]
       ELSE IF o = "error"
       THEN /\ pc' = "terminated"
            /\ hist' = AfterRead(o)
       ELSE /\ hist.retries < MaxRetries
            /\ pc' = "read"
            /\ hist' = [AfterRead(o) EXCEPT !.retries = @ + 1]
  /\ UNCHANGED E
  /\ OpsUnchanged

\* One read() of lines 268, 269 and 281, and the return it leads to.
KeysSeqRead ==
  /\ pc = "seq"
  /\ \E o \in ReadOutcomes(hist.input) :
       IF ReadGot(NRead(o))
       THEN \E c \in Stored(o) :
              LET seq == Append(hist.seq, c)
                  h == [AfterRead(o) EXCEPT !.seq = seq,
                                            !.late = @ \/ o # "byte"]
              IN IF Len(seq) = 1 \/ (Len(seq) = 2 /\ NeedsThird(seq))
                 THEN pc' = "seq" /\ hist' = h
                 ELSE /\ pc' = "returned"
                      /\ hist' = [h EXCEPT !.key =
                                    SeqKey(IF Len(seq) = 2 THEN Append(seq, CH_NUL)
                                           ELSE seq)]
       ELSE /\ pc' = "returned"
            /\ hist' = [AfterRead(o) EXCEPT !.key = CH_ESC, !.late = TRUE]
  /\ UNCHANGED E
  /\ OpsUnchanged

KeysNext ==
  \/ KeysFirstRead
  \/ KeysSeqRead

SpecKeys == KeysInit /\ [][KeysNext]_vars

(***************************************************************************)
(* SpecRow: one row from its bytes.  Init is an empty document, with or    *)
(* without the C profile, and in hist.chars the bytes of a line: up to     *)
(* MaxTokens pieces of C text, or one of two whole lines.  RowInsert is    *)
(* editorInsertRow of that line, which builds its render string and its    *)
(* highlight array; RowCxToRx is editorRowCxToRx on the row for some cx    *)
(* (hist.cx), its result in hist.rx.  pc: "row", "updated", "converted".   *)
(***************************************************************************)
\* "int", "if", "a", " ", "=", "5", ";", ".", "//", a double quote, a
\* backslash, a tab, NUL and a byte over 127
RowTokens ==
  { <<105, 110, 116>>, <<105, 102>>, <<97>>, <<CH_SPACE>>, <<61>>, <<53>>, <<59>>,
    <<CH_DOT>>, <<47, 47>>, <<CH_DQUOTE>>, <<CH_BACKSLASH>>, <<CH_TAB>>, <<CH_NUL>>,
    <<200>>, <<CH_SQUOTE>> }

MaxTokens == 3

RECURSIVE Flatten(_)
Flatten(pieces) ==
  IF pieces = <<>> THEN <<>> ELSE Head(pieces) \o Flatten(Tail(pieces))

\* "int a = 5;" and "hello<TAB>world"
LineIntA == <<105, 110, 116, 32, 97, 32, 61, 32, 53, 59>>
LineHelloWorld == <<104, 101, 108, 108, 111, CH_TAB, 119, 111, 114, 108, 100>>

\* The ten bytes  "//\"'"//5 : a string that holds the comment prefix, an
\* escaped quote and the other quote, then a comment.
LineStringThenComment ==
  <<CH_DQUOTE, 47, 47, CH_BACKSLASH, CH_DQUOTE, CH_SQUOTE, CH_DQUOTE, 47, 47, 53>>

RowTexts ==
  {Flatten(pieces) : pieces \in UNION {[1..n -> RowTokens] : n \in 0..MaxTokens}}
    \cup {LineIntA, LineHelloWorld, LineStringThenComment}

RowInit ==
  /\ \E name \in FileNames \cup {NULL}, text \in RowTexts :
       /\ E = editorSelectSyntaxHighlight(
                [initEditor(ZeroE, WinRows, WinCols) EXCEPT !.filename = name])
       /\ hist = [chars |-> text, cx |-> 0, rx |-> 0, coloff |-> 0, out |-> <<>>]
  /\ pc = "row"
  /\ quit_times = KILO_QUIT_TIMES
  /\ last_match = -1
  /\ direction = 1
  /\ saved_hl_line = 0
  /\ saved_hl = NULL
  /\ prompt = NoPrompt
  /\ find_saved = NoFindSaved
  /\ term = [termios |-> "raw", atexit |-> TRUE, status |-> -1,
             acquired |-> 1, restored |-> 0, cleared |-> FALSE, perror |-> ""]

\* editorInsertRow(0, chars, len) on the empty document
RowInsert ==
  /\ pc = "row"
  /\ E' = editorInsertRow(E, 0, hist.chars, Len(hist.chars))
  /\ pc' = "updated"
  /\ UNCHANGED hist
  /\ OpsUnchanged

\* editorRowCxToRx(&E.row[0], cx)
RowCxToRx ==
  /\ pc = "updated"
  /\ \E cx \in 0..E.row[1].size :
       hist' = [hist EXCEPT !.cx = cx, !.rx = editorRowCxToRx(E.row[1], cx)]
  /\ pc' = "converted"
  /\ UNCHANGED E
  /\ OpsUnchanged

\* The column offsets the row is drawn at.
MaxColoff == 2

\* The bytes editorDrawRows appends for E.row[0] when it is visible and the
\* window starts at column coloff, before the clear-line sequence.
RowDraw ==
  /\ pc = "updated"
  /\ \E coloff \in 0..MaxColoff :
       hist' = [hist EXCEPT !.coloff = coloff,
                            !.out = DrawRow(E.row[1], coloff, E.screencols)]
  /\ pc' = "drawn"
  /\ UNCHANGED E
  /\ OpsUnchanged

RowNext ==
  \/ RowInsert
  \/ RowCxToRx
  \/ RowDraw

SpecRow == RowInit /\ [][RowNext]_vars

(***************************************************************************)
(* SpecDisk: editorSave on a named document and the file it writes.  Init  *)
(* is a loaded document, clean or dirty, and in hist.file the bytes the    *)
(* file of that name holds before the save (hist.old keeps them).          *)
(* DiskSave is one editorSave: open, ftruncate, write, each of which may   *)
(* fail, the write also by writing only hist.written of the bytes.         *)
(* pc: "ops", "saved", "save failed".                                      *)
(***************************************************************************)
MaxOld == 3

\* The contents the file may have before the save.
OldFiles == UNION {[1..n -> {120, 10}] : n \in 0..MaxOld}

\* ftruncate(fd, len) that only ever extends the file: a variant the
\* properties about the saved file must tell from the source.
FTruncateKeepsTail(file, len) ==
  [k \in 1..Max(len, Len(file)) |-> IF k <= Len(file) THEN file[k] ELSE CH_NUL]

\* ftruncate(fd, len): the file cut or zero-filled to len bytes
FTruncate(file, len) ==
  [k \in 1..len |-> IF k <= Len(file) THEN file[k] ELSE CH_NUL]

\* write(fd, buf, len) at offset 0 when n bytes get written
WriteFile(file, buf, n) ==
  [k \in 1..Max(n, Len(file)) |-> IF k <= n THEN buf[k] ELSE file[k]]

DiskInit ==
  /\ \E rows \in Docs, name \in FileNames, dirty \in 0..1, old \in OldFiles :
       /\ E = [editorOpen(initEditor(ZeroE, WinRows, WinCols), name, FileOf(rows))
                 EXCEPT !.dirty = dirty]
       /\ hist = [old |-> old, file |-> old, written |-> 0]
  /\ pc = "ops"
  /\ quit_times = KILO_QUIT_TIMES
  /\ last_match = -1
  /\ direction = 1
  /\ saved_hl_line = 0
  /\ saved_hl = NULL
  /\ prompt = NoPrompt
  /\ find_saved = NoFindSaved
  /\ term = [termios |-> "raw", atexit |-> TRUE, status |-> -1,
             acquired |-> 1, restored |-> 0, cleared |-> FALSE, perror |-> ""]

\* editorSave() from line 1023 on
DiskSave ==
  /\ pc = "ops"
  /\ LET s == editorRowsToString(E)
     IN \E io \in SaveOutcomes :
          /\ E' = SaveTail(E, io)
          /\ pc' = IF io = "written" THEN "saved" ELSE "save failed"
          /\ CASE io = "open fails" -> UNCHANGED hist
               [] io = "ftruncate fails" -> UNCHANGED hist
               [] io = "write fails" ->
                    \E n \in 0..(s.buflen - 1) :
                      hist' = [hist EXCEPT
                                 !.file = WriteFile(FTruncate(@, s.buflen), s.buf, n),
                                 !.written = n]
               [] io = "written" ->
                    hist' = [hist EXCEPT
                               !.file = WriteFile(FTruncate(@, s.buflen), s.buf, s.buflen),
                               !.written = s.buflen]
  /\ OpsUnchanged

DiskNext == DiskSave

SpecDisk == DiskInit /\ [][DiskNext]_vars

(***************************************************************************)
(* SpecPrompt: editorPrompt from its call to its return, for the search    *)
(* (callback editorFindCallback) and for the file name (no callback), over *)
(* a loaded document.  The keys are values editorReadKey returns: a        *)
(* letter, a control byte, the three deleting keys, Escape, Enter, an      *)
(* arrow, and the byte 0xFF, which the char editorReadKey returns holds as *)
(* 255 or as -1.  hist counts the keys read (reads) and the calls of the   *)
(* callback (calls) and keeps the last key (key), the buffer the callback  *)
(* was last given (arg), whether editorPrompt has returned and what.       *)
(***************************************************************************)
MaxPrompt == 2
MaxReads == 3

PromptReads ==
  {97, CH_TAB, BACKSPACE, DEL_KEY, CTRL_KEY(104), CH_ESC, CH_CR, ARROW_DOWN}
    \cup CharValue(255)

PromptInit ==
  /\ \E rows \in Docs, name \in FileNames, cb \in {"find", "save"} :
       /\ prompt = [callback |-> cb, buf |-> <<>>]
       /\ E = PromptFrame(
                editorOpen(initEditor(ZeroE, WinRows, WinCols), name, FileOf(rows)),
                cb, <<>>)
  /\ hist = [reads |-> 0, calls |-> 0, key |-> 0, arg |-> NULL,
             returned |-> FALSE, result |-> NULL]
  /\ pc = "prompt_key"
  /\ quit_times = KILO_QUIT_TIMES
  /\ last_match = -1
  /\ direction = 1
  /\ saved_hl_line = 0
  /\ saved_hl = NULL
  /\ find_saved = NoFindSaved
  /\ term = [termios |-> "raw", atexit |-> TRUE, status |-> -1,
             acquired |-> 1, restored |-> 0, cleared |-> FALSE, perror |-> ""]

\* One turn of editorPrompt's loop from editorReadKey on, and the head of
\* the next turn or the return.
PromptKey ==
  /\ pc = "prompt_key"
  /\ hist.reads < MaxReads
  /\ \E c \in PromptReads :
       LET buf == PromptBuf(prompt.buf, c)
           ends == PromptEnds(prompt.buf, c)
           E1 == IF ends THEN editorSetStatusMessage(E, "", <<>>) ELSE E
           S0 == [E |-> E1, last_match |-> last_match, direction |-> direction,
                  saved_hl_line |-> saved_hl_line, saved_hl |-> saved_hl]
           S == IF prompt.callback = "find" THEN editorFindCallback(S0, buf, c)
                ELSE S0
       IN /\ (~iscntrl(c) /\ c < 128) => Len(prompt.buf) < MaxPrompt
          /\ last_match' = S.last_match
          /\ direction' = S.direction
          /\ saved_hl_line' = S.saved_hl_line
          /\ saved_hl' = S.saved_hl
          /\ prompt' = [prompt EXCEPT !.buf = buf]
          /\ E' = IF ends THEN S.E ELSE PromptFrame(S.E, prompt.callback, buf)
          /\ pc' = IF ends THEN "returned" ELSE "prompt_key"
          /\ hist' = [reads |-> hist.reads + 1,
                      calls |-> IF prompt.callback = "find" THEN hist.calls + 1
                                ELSE hist.calls,
                      key |-> c,
                      arg |-> IF prompt.callback = "find" THEN buf ELSE hist.arg,
                      returned |-> ends,
                      result |-> IF ends /\ c # CH_ESC THEN buf ELSE NULL]
  /\ UNCHANGED <<quit_times, find_saved, term>>

PromptNext == PromptKey

SpecPrompt == PromptInit /\ [][PromptNext]_vars

(***************************************************************************)
(* SpecLoop: the main loop and the search prompt with editorRefreshScreen  *)
(* in its steps: editorScroll, then the buffer built and written, then the *)
(* key.  pc is "refresh" at the call of editorRefreshScreen, "draw" after  *)
(* editorScroll, "key" or "prompt_key" in editorReadKey.  hist keeps the   *)
(* last thing the terminal saw (last: a frame or a key), how many writes   *)
(* the current editorRefreshScreen has issued (frames) and the bytes of    *)
(* the last write (out).                                                   *)
(***************************************************************************)

\* main() up to the loop, with no argument or with a file that opens.
LoopInit ==
  /\ \E arg \in {"none", "opens"} :
       E = editorSetStatusMessage(
             IF arg = "none" THEN initEditor(ZeroE, WinRows, WinCols)
             ELSE LET name == CHOOSE n \in FileNames : TRUE
                      bytes == <<CH_TAB, 49, 10>>
                  IN editorOpen(initEditor(ZeroE, WinRows, WinCols), name, bytes),
             HelpMessage, <<>>)
  /\ hist = [last |-> "none", frames |-> 0, out |-> <<>>]
  /\ pc = "refresh"
  /\ quit_times = KILO_QUIT_TIMES
  /\ last_match = -1
  /\ direction = 1
  /\ saved_hl_line = 0
  /\ saved_hl = NULL
  /\ prompt = NoPrompt
  /\ find_saved = NoFindSaved
  /\ term = [termios |-> "raw", atexit |-> TRUE, status |-> -1,
             acquired |-> 1, restored |-> 0, cleared |-> FALSE, perror |-> ""]

\* editorRefreshScreen(), line 1414
LoopScroll ==
  /\ pc = "refresh"
  /\ E' = editorScroll(E)
  /\ pc' = "draw"
  /\ hist' = [hist EXCEPT !.frames = 0]
  /\ UNCHANGED <<quit_times, findStatics, prompt, find_saved, term>>

\* editorRefreshScreen(), lines 1416-1437: the buffer and its write; then
\* editorReadKey blocks.
LoopWrite ==
  /\ pc = "draw"
  /\ \E fresh \in BOOLEAN :
       hist' = [last |-> "frame", frames |-> hist.frames + 1,
                out |-> RefreshFrame(E, fresh)]
  /\ pc' = IF prompt.callback = "none" THEN "key" ELSE "prompt_key"
  /\ UNCHANGED <<E, quit_times, findStatics, prompt, find_saved, term>>

\* editorProcessKeyPress() for a key of the main loop, back to the head of
\* the loop.
LoopKey ==
  /\ pc = "key"
  /\ \E c \in {49, CH_CR, BACKSPACE, DEL_KEY, ARROW_LEFT, ARROW_RIGHT,
               ARROW_DOWN},
        g \in GarbageAt(E) :
       /\ KeyInBounds(E, c, g)
       /\ IF WritesOutside(E, c, g)
          THEN pc' = "undefined" /\ UNCHANGED <<E, quit_times>>
          ELSE /\ E' = KeyCase(E, c, g)
               /\ quit_times' = KILO_QUIT_TIMES
               /\ pc' = "refresh"
  /\ hist' = [hist EXCEPT !.last = "key"]
  /\ UNCHANGED <<findStatics, prompt, find_saved, term>>

\* case CTRL_KEY('f'): editorFind() to the first editorRefreshScreen of
\* editorPrompt
LoopFind ==
  /\ pc = "key"
  /\ find_saved' = [cx |-> E.cx, cy |-> E.cy, coloff |-> E.coloff,
                    rowoff |-> E.rowoff]
  /\ prompt' = [callback |-> "find", buf |-> <<>>]
  /\ E' = editorSetStatusMessage(E, "Search: %s (Use ESC/Arrows/Enter)", <<>>)
  /\ pc' = "refresh"
  /\ hist' = [hist EXCEPT !.last = "key"]
  /\ UNCHANGED <<quit_times, findStatics, term>>

\* A key in the search prompt, to the next editorRefreshScreen: that of
\* editorPrompt's loop or, when the prompt ends, that of the main loop.
LoopPromptKey ==
  /\ pc = "prompt_key"
  /\ \E c \in {49, CH_ESC, CH_CR, ARROW_DOWN} :
       LET buf == PromptBuf(prompt.buf, c)
           ends == PromptEnds(prompt.buf, c)
           E1 == IF ends THEN editorSetStatusMessage(E, "", <<>>) ELSE E
           S == editorFindCallback(
                  [E |-> E1, last_match |-> last_match, direction |-> direction,
                   saved_hl_line |-> saved_hl_line, saved_hl |-> saved_hl],
                  buf, c)
       IN /\ PromptKeyInBounds(prompt.buf, c)
          /\ last_match' = S.last_match
          /\ direction' = S.direction
          /\ saved_hl_line' = S.saved_hl_line
          /\ saved_hl' = S.saved_hl
          /\ IF ~ends
             THEN /\ E' = editorSetStatusMessage(
                            S.E, "Search: %s (Use ESC/Arrows/Enter)", buf)
                  /\ prompt' = [prompt EXCEPT !.buf = buf]
                  /\ UNCHANGED <<quit_times, find_saved>>
             ELSE /\ E' = IF c = CH_ESC THEN FindRestore(S.E, find_saved) ELSE S.E
                  /\ prompt' = NoPrompt
                  /\ find_saved' = NoFindSaved
                  /\ quit_times' = KILO_QUIT_TIMES
  /\ pc' = "refresh"
  /\ hist' = [hist EXCEPT !.last = "key"]
  /\ UNCHANGED term

LoopNext ==
  \/ LoopScroll
  \/ LoopWrite
  \/ LoopKey
  \/ LoopFind
  \/ LoopPromptKey

SpecLoop == LoopInit /\ [][LoopNext]_vars

(***************************************************************************)
(* Properties                                                              *)
(***************************************************************************)
Running == pc \in {"key", "prompt_key"}
Ended == pc \in {"terminated", "hung"}

\* C1: for every row and every cx in [0, row.size],
\* editorRowRxToCx(row, editorRowCxToRx(row, cx)) = cx.  Under SpecOps,
\* where OpsRoundTrip records cx in hist.at and the result of the round
\* trip in hist.back.
C1_RoundTrip == pc = "roundtrip" => hist.back = hist.at

\* C2, as the specification states it: on a dirty buffer, with the counter
\* at KILO_QUIT_TIMES, the third Ctrl-Q in a row ends the process after
\* exactly two warnings.
C2_ThirdPressExits == hist.qpresses = 3 => Ended /\ hist.warnings = 2

\* C2, amended: on a dirty buffer, with the counter at KILO_QUIT_TIMES, each
\* of the first three Ctrl-Q in a row sets a warning and leaves the process
\* running with the counter one lower; the fourth ends the process, after
\* exactly three warnings.
C2_FourthPressExits ==
  /\ hist.qpresses \in 0..(KILO_QUIT_TIMES + 1)
  /\ hist.warnings \in 1..KILO_QUIT_TIMES
       => hist.qpresses \in {hist.warnings, KILO_QUIT_TIMES + 1}
  /\ hist.qpresses \in 2..KILO_QUIT_TIMES => hist.warnings = hist.qpresses
  /\ hist.qpresses \in 1..KILO_QUIT_TIMES /\ hist.warnings = hist.qpresses /\ pc = "key"
       => E.dirty # 0 /\ quit_times = KILO_QUIT_TIMES - hist.qpresses
  /\ hist.qpresses = KILO_QUIT_TIMES + 1
       => Ended /\ hist.warnings = KILO_QUIT_TIMES

\* The fourth Ctrl-Q in a row has ended the process after three warnings.
C2_Witness ==
  Ended /\ hist.qpresses = KILO_QUIT_TIMES + 1 /\ hist.warnings = KILO_QUIT_TIMES

\* C3: the countdown advances only on Ctrl-Q presses in a row: when
\* editorProcessKeyPress has handled any other key the counter is back at
\* KILO_QUIT_TIMES, and it is always KILO_QUIT_TIMES less the warnings of
\* the presses in a row; a successful save leaves dirty = 0; and a Ctrl-Q
\* read with dirty = 0 ends the process without a warning.
C3_Countdown ==
  /\ [](pc = "key" =>
          /\ hist.key # "ctrl-q" => quit_times = KILO_QUIT_TIMES
          /\ quit_times = KILO_QUIT_TIMES - hist.warnings
          /\ hist.key = "saved" => E.dirty = 0)
  /\ [][pc = "key" /\ E.dirty = 0 /\ hist'.qpresses = hist.qpresses + 1
          => pc' \in {"terminated", "hung"} /\ hist'.warnings = hist.warnings]_vars

\* A single Ctrl-Q has ended the process without a warning.
C3_Witness ==
  Ended /\ hist.key = "ctrl-q" /\ hist.qpresses = 1 /\ hist.warnings = 0

\* C4: when the process has terminated after raw mode was enabled, the
\* original terminal settings were restored exactly once and are in force;
\* raw mode is acquired at most once.
C4_RestoredOnce ==
  /\ term.acquired <= 1
  /\ pc = "terminated" /\ term.acquired = 1
       => term.restored = 1 /\ term.termios = "orig"

\* C5: when editorProcessKeyPress has handled a key, 0 <= cy <= numrows,
\* 0 <= cx <= row[cy].size when cy < numrows, and cx = 0 when cy = numrows.
C5_CursorInDocument ==
  pc = "key" =>
    /\ 0 <= E.cy /\ E.cy <= E.numrows
    /\ E.cy < E.numrows => 0 <= E.cx /\ E.cx <= E.row[E.cy + 1].size
    /\ E.cy = E.numrows => E.cx = 0

\* C6: after editorScroll, whatever the cursor and the offsets before it
\* (rowoff = numrows included): rowoff <= cy < rowoff + screenrows,
\* coloff <= rx < coloff + screencols, and rx is editorRowCxToRx of the
\* cursor's row and cx when cy < numrows, else 0.  Under SpecOps.
C6_CursorInWindow ==
  pc = "scrolled" =>
    /\ E.rowoff <= E.cy /\ E.cy < E.rowoff + E.screenrows
    /\ E.coloff <= E.rx /\ E.rx < E.coloff + E.screencols
    /\ E.rx = IF E.cy < E.numrows THEN editorRowCxToRx(E.row[E.cy + 1], E.cx)
              ELSE 0

\* editorScroll has brought the window back from rowoff = numrows and from
\* a column offset right of the cursor.
C6_Witness ==
  /\ pc = "scrolled"
  /\ E.numrows > 0 /\ hist.before.rowoff = E.numrows
  /\ E.cy < E.numrows /\ E.rowoff = E.cy
  /\ hist.before.coloff > E.rx /\ E.rx > 0

\* The tab expansion of a row's bytes: each byte as it is, each tab as the
\* spaces up to the next multiple of KILO_TAB_STOP.
RECURSIVE TabExpand(_)
TabExpand(chars) ==
  IF chars = <<>> THEN <<>>
  ELSE LET pre == TabExpand(SubSeq(chars, 1, Len(chars) - 1))
       IN IF chars[Len(chars)] = CH_TAB
          THEN pre \o [k \in 1..(KILO_TAB_STOP - (Len(pre) % KILO_TAB_STOP))
                         |-> CH_SPACE]
          ELSE Append(pre, chars[Len(chars)])

\* C7: every row of the document has the tab expansion of its bytes as its
\* render string, the length of that string as rsize and rsize highlight
\* entries: after the rows are inserted and after insert-char, delete-char,
\* Enter (both rows of the split) and Backspace (append-string).  Under
\* SpecOps.
C7_RenderConsistent ==
  /\ Len(E.row) = E.numrows
  /\ \A k \in 1..E.numrows :
       /\ E.row[k].size = Len(E.row[k].chars)
       /\ E.row[k].render = TabExpand(E.row[k].chars)
       /\ E.row[k].rsize = Len(E.row[k].render)
       /\ Len(E.row[k].hl) = E.row[k].rsize

\* Enter has split a row inside, and the upper part it truncated holds a tab.
C7_Witness ==
  /\ pc = "split"
  /\ hist.before.cx > 0
  /\ hist.before.cx < hist.before.row[hist.before.cy + 1].size
  /\ \E k \in 1..hist.before.cx : E.row[hist.before.cy + 1].chars[k] = CH_TAB

\* C8: while the editor runs, a key that changes the bytes or the number of
\* the rows leaves dirty > 0, only a successful save brings dirty back to
\* 0, and editorOpen leaves it 0: so with dirty = 0 the rows are those of
\* the last successful load or save.
C8_DirtyTracksChanges ==
  [][/\ pc = "editorOpen" /\ pc' = "key" => E'.dirty = 0
     /\ Running /\ pc' \in {"key", "prompt_key"}
          => /\ RawRows(E') # RawRows(E) => E'.dirty > 0
             /\ E'.dirty = 0 /\ E.dirty # 0 => hist'.key = "saved"]_vars

\* A save has succeeded on a document with rows, under a name typed at the
\* prompt.
C8_Witness ==
  /\ pc = "key" /\ hist.key = "saved"
  /\ E.dirty = 0 /\ E.numrows > 0 /\ E.filename = <<49>>

\* C9: editorRowInsertChar(row, p, ch) and then editorRowDelChar(row, p),
\* for p in [0, row.size], leave the row's bytes and size as they were.
\* Under SpecOps.
C9_InsertThenDelete ==
  pc = "deleted" =>
    /\ E.row[E.cy + 1].chars = hist.before.row[E.cy + 1].chars
    /\ E.row[E.cy + 1].size = hist.before.row[E.cy + 1].size

\* A byte was inserted at the end of a row that is not empty, and deleted.
C9_Witness ==
  /\ pc = "deleted"
  /\ hist.at = hist.before.row[E.cy + 1].size
  /\ hist.at > 0

\* C10: Enter with the cursor at (cy, c), 0 <= c <= row.size, and then
\* Backspace leave the number of rows and the bytes of every row as they
\* were.  Under SpecOps.
C10_EnterThenBackspace ==
  pc = "joined" =>
    /\ E.numrows = hist.before.numrows
    /\ RawRows(E) = RawRows(hist.before)

\* Enter and Backspace at the end of a row that is not empty and not the
\* first.
C10_Witness ==
  /\ pc = "joined"
  /\ hist.before.cy > 0
  /\ hist.before.cx = hist.before.row[hist.before.cy + 1].size
  /\ hist.before.cx > 0

\* The escape sequences editorReadKey knows, with their keys.
KeyTable ==
  { <<(<<CH_ESC, 91, 65>>), ARROW_UP>>,    <<(<<CH_ESC, 91, 66>>), ARROW_DOWN>>,
    <<(<<CH_ESC, 91, 67>>), ARROW_RIGHT>>, <<(<<CH_ESC, 91, 68>>), ARROW_LEFT>>,
    <<(<<CH_ESC, 91, 72>>), HOME_KEY>>,    <<(<<CH_ESC, 91, 70>>), END_KEY>>,
    <<(<<CH_ESC, 79, 72>>), HOME_KEY>>,    <<(<<CH_ESC, 79, 70>>), END_KEY>>,
    <<(<<CH_ESC, 91, 49, 126>>), HOME_KEY>>, <<(<<CH_ESC, 91, 55, 126>>), HOME_KEY>>,
    <<(<<CH_ESC, 91, 52, 126>>), END_KEY>>,  <<(<<CH_ESC, 91, 56, 126>>), END_KEY>>,
    <<(<<CH_ESC, 91, 51, 126>>), DEL_KEY>>,  <<(<<CH_ESC, 91, 53, 126>>), PAGE_UP>>,
    <<(<<CH_ESC, 91, 54, 126>>), PAGE_DOWN>> }

IsPrefix(s, t) == Len(s) <= Len(t) /\ SubSeq(t, 1, Len(s)) = s

\* The key the table gives the bytes of input: that of the sequence input
\* begins with, plain ESC when it begins with none.
TableKey(input) ==
  IF \E e \in KeyTable : IsPrefix(e[1], input)
  THEN (CHOOSE e \in KeyTable : IsPrefix(e[1], input))[2]
  ELSE CH_ESC

FullyRead == pc = "returned" /\ hist.full

C12_ReadsBeforeReturning ==
  /\ [](pc = "returned" => /\ Len(hist.consumed) >= 1
                           /\ hist.late => hist.key = CH_ESC)
  /\ [][pc = "read" /\ hist'.consumed = <<>> /\ pc' # "terminated"
          => pc' = "read" /\ hist'.key = -1]_vars

\* After two fruitless reads the call read ESC [ 5 and the third read after
\* them timed out with the ~ still to come: plain ESC, not Page Up.
C12_Witness ==
  /\ pc = "returned"
  /\ hist.retries = 2
  /\ hist.late
  /\ hist.consumed = <<CH_ESC, 91, 53>>
  /\ hist.input = <<126>>
  /\ hist.key = CH_ESC

\* The query q stands at offset o of the string render holds: before the
\* first NUL, if there is one.
OccursAt(render, q, o) ==
  /\ o + Len(q) <= Len(render)
  /\ \A j \in 1..(o + Len(q)) : render[j] # CH_NUL
  /\ \A j \in 1..Len(q) : render[o + j] = q[j]

\* Row k (from 0) of E0 contains q.
RowHolds(E0, k, q) ==
  \E o \in 0..Len(E0.row[k + 1].render) : OccursAt(E0.row[k + 1].render, q, o)

\* The first row that contains q among start + d, start + 2d, ..., numrows of
\* them, counted round the document.
CyclicFirst(E0, q, start, d) ==
  LET n == E0.numrows
      order == [i \in 1..n |-> (start + d * i) % n]
      first == CHOOSE i \in 1..n :
                 /\ RowHolds(E0, order[i], q)
                 /\ \A j \in 1..(i - 1) : ~RowHolds(E0, order[j], q)
  IN order[first]

\* A key of the search prompt that left the prompt open: the callback ran
\* with the query prompt'.buf.
CallbackRan == pc = "prompt_key" /\ prompt.callback = "find" /\ pc' = "prompt_key"

HlRestored(k) ==
  IF saved_hl # NULL /\ k = saved_hl_line + 1 THEN saved_hl ELSE E.row[k].hl

\* The least offset of q in render.
FirstOffset(render, q) ==
  CHOOSE o \in 0..Len(render) :
    /\ OccursAt(render, q, o)
    /\ \A o2 \in 0..(o - 1) : ~OccursAt(render, q, o2)

\* C14: on a hit in row m at render offset o with a query of length L, the
\* entries o .. o+L-1 of row m's highlight array are HL_MATCH and every other
\* entry of every row is what it was before the hit.
C14_HitMarksSpan ==
  [][pc = "prompt_key" /\ prompt.callback = "find" /\ saved_hl' # NULL
     => LET m == saved_hl_line'
            q == prompt'.buf
            o == FirstOffset(E.row[m + 1].render, q)
        IN /\ m = E'.cy
           /\ RowHolds(E, m, q)
           /\ \A k \in 1..E.numrows :
                /\ Len(E'.row[k].hl) = Len(E.row[k].hl)
                /\ \A j \in 1..Len(E.row[k].hl) :
                     E'.row[k].hl[j] =
                       IF k = m + 1 /\ j - 1 >= o /\ j - 1 < o + Len(q)
                       THEN HL_MATCH
                       ELSE HlRestored(k)[j]]_vars

\* The query "ab" was found in the row "bab": render columns 1 and 2 are
\* overlaid, column 0 is not.
C14_Witness ==
  /\ pc = "prompt_key" /\ prompt.callback = "find"
  /\ prompt.buf = <<97, 98>>
  /\ saved_hl # NULL /\ saved_hl_line = 0
  /\ E.row[1].render = <<98, 97, 98>>
  /\ E.row[1].hl = <<HL_NORMAL, HL_MATCH, HL_MATCH>>

\* The rows (from 1) whose highlight array is not the highlighter's output
\* for their render.
Overlaid(E0) ==
  {k \in 1..E0.numrows :
     E0.row[k].hl # editorUpdateSyntax(E0.syntax, E0.row[k].render, E0.row[k].rsize)}

\* C15: at most one row's highlight array differs from the highlighter's
\* output, it is the row the callback has saved a copy of and the copy is the
\* highlighter's output; when no search prompt is open no row differs and
\* no entry is HL_MATCH.
C15_OverlayIsTemporary ==
  /\ Cardinality(Overlaid(E)) <= 1
  /\ \A k \in Overlaid(E) :
       /\ saved_hl # NULL /\ k = saved_hl_line + 1
       /\ saved_hl = editorUpdateSyntax(E.syntax, E.row[k].render, E.row[k].rsize)
  /\ pc = "key" =>
       /\ Overlaid(E) = {}
       /\ saved_hl = NULL
       /\ \A k \in 1..E.numrows : \A j \in 1..Len(E.row[k].hl) :
            E.row[k].hl[j] # HL_MATCH

\* Enter ended a search while the row "1b" was overlaid: the cursor is on
\* its match and the row is highlighted as the highlighter has it.
C15_Witness ==
  /\ pc = "key" /\ hist.key = "find committed" /\ hist.overlay
  /\ E.cy = 2 /\ E.cx = 1
  /\ E.row[3].hl = <<HL_NUMBER, HL_NORMAL>>

\* C16: Ctrl-F saves cx, cy, rowoff and coloff and the prompt keeps them;
\* when Escape ends the prompt they are again what was saved; when Enter ends
\* it the cursor stays where the search left it, on the row of the current
\* match if there is one; and no step of the search changes the bytes of
\* the rows, their number or dirty.
C16_CancelRestoresCommitStays ==
  /\ [][pc = "key" /\ pc' = "prompt_key" /\ prompt'.callback = "find"
        => find_saved' = [cx |-> E.cx, cy |-> E.cy, coloff |-> E.coloff,
                          rowoff |-> E.rowoff]]_vars
  /\ [][CallbackRan => find_saved' = find_saved]_vars
  /\ [][pc = "prompt_key" /\ prompt.callback = "find" /\ pc' = "key"
        => /\ hist'.key = "find cancelled" =>
                /\ E'.cx = find_saved.cx /\ E'.cy = find_saved.cy
                /\ E'.rowoff = find_saved.rowoff /\ E'.coloff = find_saved.coloff
           /\ hist'.key = "find committed" =>
                /\ E'.cx = E.cx /\ E'.cy = E.cy
                /\ last_match # -1 => E'.cy = last_match]_vars
  /\ [][(prompt.callback = "find" \/ prompt'.callback = "find")
          /\ pc' \in {"key", "prompt_key"}
        => /\ RawRows(E') = RawRows(E)
           /\ E'.numrows = E.numrows
           /\ E'.dirty = E.dirty]_vars

\* Escape ended a search that had moved the cursor to another row and
\* another column: the cursor is back.
C16_Witness ==
  /\ pc = "key" /\ hist.key = "find cancelled"
  /\ hist.cy # E.cy /\ hist.cx # E.cx
  /\ E.cy = 2 /\ E.rowoff = 1

\* A step in which editorSave gave up: the prompt was cancelled, or open,
\* ftruncate or write failed.
SaveGaveUp == hist'.key \in {"save failed", "save cancelled"} /\ term' = term

\* The render strings of the rows.
Renders(E0) == [k \in 1..E0.numrows |-> E0.row[k].render]

C18_FatalFailureTerminates ==
  term.perror # "" =>
    /\ term.cleared
    /\ pc = "terminated"
    /\ term.status > 0

\* C19: with the C profile, the highlight array of the row "int a = 5;" has
\* HL_KEYWORD2 on the three bytes of "int", HL_NUMBER on "5" and HL_NORMAL
\* on the other six.
C19_IntAEqualsFive ==
  (pc = "updated" /\ E.syntax = "c" /\ E.row[1].chars = LineIntA) =>
    E.row[1].hl = <<HL_KEYWORD2, HL_KEYWORD2, HL_KEYWORD2, HL_NORMAL, HL_NORMAL,
                    HL_NORMAL, HL_NORMAL, HL_NORMAL, HL_NUMBER, HL_NORMAL>>

\* The row "int a = 5;" has been highlighted under the C profile.
C19_Witness ==
  /\ pc = "updated" /\ E.syntax = "c"
  /\ E.row[1].render = LineIntA
  /\ E.row[1].hl[1] = HL_KEYWORD2 /\ E.row[1].hl[9] = HL_NUMBER

RECURSIVE SizesPlusOne(_)
SizesPlusOne(rows) ==
  IF rows = <<>> THEN 0 ELSE Head(rows).size + 1 + SizesPlusOne(Tail(rows))

\* C21: the buffer editorSave writes is each row's bytes followed by one
\* newline, in row order, its length the sum of size + 1 over the rows; and
\* after a successful save the file holds exactly that buffer, whatever it
\* held before.
C21_SavedFileIsTheRows ==
  /\ editorRowsToString(E).buf = FileOf(RawRows(E))
  /\ editorRowsToString(E).buflen = SizesPlusOne(E.row)
  /\ Len(editorRowsToString(E).buf) = editorRowsToString(E).buflen
  /\ pc = "saved" =>
       /\ hist.file = FileOf(RawRows(E))
       /\ hist.written = Len(hist.file)
       /\ Len(hist.file) = SizesPlusOne(E.row)

\* A one-row document was saved over a longer file.
C21_Witness ==
  /\ pc = "saved"
  /\ E.numrows = 1 /\ E.dirty = 0
  /\ Len(hist.old) > Len(hist.file)
  /\ hist.file = <<CH_TAB, 10>>

\* C22: when editorProcessKeyPress reads the byte '1' -- not a control
\* byte, below 128, bound to nothing -- it inserts it at column cx of row
\* cy, after adding an empty row when cy = numrows: cx is one more, cy the
\* same, the row one byte longer and every other row as it was.
C22_TypedByteInserted ==
  [][KeyFrom({49}) =>
       /\ pc' = "key"
       /\ E'.cy = E.cy /\ E'.cx = E.cx + 1
       /\ E'.numrows = IF E.cy = E.numrows THEN E.numrows + 1 ELSE E.numrows
       /\ RawRows(E') =
            IF E.cy = E.numrows THEN Append(RawRows(E), <<49>>)
            ELSE [RawRows(E) EXCEPT ![E.cy + 1] = InsertAt(@, E.cx, 49)]
       /\ E'.row[E.cy + 1].size = Len(E'.row[E.cy + 1].chars)]_vars

\* Render offset o of row is where one of its raw characters starts.
RawBoundary(row, o) == \E cx \in 0..row.size : editorRowCxToRx(row, cx) = o

\* C24: after a hit in row m at render offset o, where a raw character
\* starts, the cursor is on row m at the raw column whose render column is
\* o, whatever the row holds before the match, tabs included.
C24_CursorOnMatch ==
  [][pc = "prompt_key" /\ prompt.callback = "find" /\ saved_hl' # NULL
     => LET m == saved_hl_line'
            o == FirstOffset(E.row[m + 1].render, prompt'.buf)
        IN RawBoundary(E.row[m + 1], o)
             => /\ E'.cy = m
                /\ editorRowCxToRx(E'.row[m + 1], E'.cx) = o]_vars

\* Some row of E0 contains q.
SomeRowHolds(E0, q) == \E k \in 0..(E0.numrows - 1) : RowHolds(E0, k, q)

\* The search went to row k, which is now the current match.
MatchIsNow(k) == E'.cy = k /\ last_match' = k

\* The keys of the search prompt that are arrows, and those that are
\* neither arrows nor Enter nor Escape.
ForwardArrows == {ARROW_RIGHT, ARROW_DOWN}
BackwardArrows == {ARROW_LEFT, ARROW_UP}
QueryKeys == SearchKeys \ (ForwardArrows \cup BackwardArrows \cup {CH_CR, CH_ESC})

PromptRead == pc = "prompt_key" /\ hist'.reads = hist.reads + 1

\* C26: editorPrompt calls the callback once for each key it reads, with the
\* buffer as that key left it; Escape makes it return no string; Enter
\* makes it return the buffer when the buffer is not empty and leaves the
\* prompt open when it is; Backspace, Delete and Ctrl-H leave an empty
\* buffer empty; and a byte is appended only if it is not a control byte
\* and is below 128.
C26_PromptKeys ==
  /\ [][PromptRead /\ prompt.callback = "find"
        => hist'.calls = hist.calls + 1 /\ hist'.arg = prompt'.buf]_vars
  /\ [][PromptRead /\ hist'.key = CH_ESC
        => pc' = "returned" /\ hist'.result = NULL]_vars
  /\ [][PromptRead /\ hist'.key = CH_CR
        => IF prompt.buf # <<>>
           THEN pc' = "returned" /\ hist'.result = prompt.buf
           ELSE pc' = "prompt_key" /\ prompt'.buf = <<>>]_vars
  /\ [][PromptRead /\ hist'.key \in {BACKSPACE, DEL_KEY, CTRL_KEY(104)}
          /\ prompt.buf = <<>>
        => prompt'.buf = <<>>]_vars
  /\ [][PromptRead /\ Len(prompt'.buf) > Len(prompt.buf)
        => \E b \in 0..127 : ~iscntrl(b) /\ prompt'.buf = Append(prompt.buf, b)]_vars

\* The two quote characters, and the tags of the two keyword tiers.
IsQuote(c) == c \in {CH_DQUOTE, CH_SQUOTE}
IsKeywordTag(t) == t \in {HL_KEYWORD1, HL_KEYWORD2}

\* The highlighted row of SpecRow under the C profile.
Highlighted == pc = "updated" /\ E.syntax = "c"

\* Offset a (from 0) starts a run of one keyword tag in hl, and where the
\* run ends (the offset after its last entry).
KeywordRunStarts(hl, a) ==
  IsKeywordTag(hl[a + 1]) /\ (a = 0 \/ hl[a] # hl[a + 1])
KeywordRunEnd(hl, a) ==
  CHOOSE b \in (a + 1)..Len(hl) :
    /\ \A k \in (a + 1)..b : hl[k] = hl[a + 1]
    /\ b = Len(hl) \/ hl[b + 1] # hl[a + 1]

\* C27: a run of entries tagged keyword spells a configured keyword of that
\* tier, the character before it is a separator or the run starts the row,
\* and the character after it is a separator or the row ends there; and an
\* entry directly after the closing quote of a string is tagged neither
\* keyword nor number.
C27_KeywordsBetweenSeparators ==
  Highlighted =>
    LET render == E.row[1].render
        hl == E.row[1].hl
    IN /\ \A a \in 0..(Len(hl) - 1) :
            KeywordRunStarts(hl, a) =>
              LET b == KeywordRunEnd(hl, a)
              IN /\ \E j \in 1..Len(HLDB.keywords) :
                      LET kw == HLDB.keywords[j]
                      IN /\ SubSeq(render, a + 1, b) = SubSeq(kw, 1, KwLen(kw))
                         /\ hl[a + 1] = IF KwIsKw2(kw) THEN HL_KEYWORD2
                                        ELSE HL_KEYWORD1
                 /\ a = 0 \/ is_separator(render[a])
                 /\ b = Len(hl) \/ is_separator(render[b + 1])
       /\ \A i \in 1..(Len(hl) - 1) :
            (IsQuote(render[i]) /\ hl[i] = HL_STRING)
              => ~IsKeywordTag(hl[i + 1]) /\ hl[i + 1] # HL_NUMBER

\* The comment prefix of the C profile, "//".
CommentPrefix == <<47, 47>>
CommentAt(render, p) ==
  /\ p + Len(CommentPrefix) <= Len(render)
  /\ \A k \in 1..Len(CommentPrefix) : render[p + k] = CommentPrefix[k]

\* How many backslashes stand directly before offset b, after offset a.
RECURSIVE BackslashRun(_, _, _)
BackslashRun(render, a, b) ==
  IF b - 1 > a /\ render[b] = CH_BACKSLASH
  THEN 1 + BackslashRun(render, a, b - 1)
  ELSE 0

\* The last offset of the string the quote at offset a opens: the first
\* later occurrence of the same quote that no backslash escapes, or the end
\* of the row.
Closes(render, a, b) ==
  render[b + 1] = render[a + 1] /\ BackslashRun(render, a, b) % 2 = 0
StringEnd(render, a) ==
  IF \E b \in (a + 1)..(Len(render) - 1) : Closes(render, a, b)
  THEN CHOOSE b \in (a + 1)..(Len(render) - 1) :
         /\ Closes(render, a, b)
         /\ \A b2 \in (a + 1)..(b - 1) : ~Closes(render, a, b2)
  ELSE Len(render) - 1

\* What each character of render from offset p on is, read from the left:
\* part of a string, part of the comment, or neither.
RECURSIVE Lex(_, _)
Lex(render, p) ==
  IF p >= Len(render) THEN <<>>
  ELSE IF CommentAt(render, p) THEN [k \in 1..(Len(render) - p) |-> "comment"]
  ELSE IF IsQuote(render[p + 1])
  THEN LET e == StringEnd(render, p)
       IN [k \in 1..(e - p + 1) |-> "string"] \o Lex(render, e + 1)
  ELSE <<"other">> \o Lex(render, p + 1)

\* C28: every entry from the first comment prefix that is not inside a
\* string to the end of the row is HL_COMMENT and no entry before it is; the
\* two characters of a comment prefix inside a string are HL_STRING.
C28_CommentToEndOfRow ==
  Highlighted =>
    LET render == E.row[1].render
        hl == E.row[1].hl
        lex == Lex(render, 0)
    IN /\ Len(hl) = Len(render)
       /\ \A k \in 1..Len(hl) : hl[k] = HL_COMMENT <=> lex[k] = "comment"
       /\ \A p \in 0..(Len(render) - 1) :
            (CommentAt(render, p) /\ lex[p + 1] = "string")
              => \A k \in 1..Len(CommentPrefix) : hl[p + k] = HL_STRING

\* The row LineStringThenComment: "//" inside the string is string, the
\* "//" after the string starts the comment.
C28_Witness ==
  /\ Highlighted
  /\ E.row[1].render = LineStringThenComment
  /\ E.row[1].hl[2] = HL_STRING /\ E.row[1].hl[3] = HL_STRING
  /\ E.row[1].hl[7] = HL_STRING
  /\ \A k \in 8..10 : E.row[1].hl[k] = HL_COMMENT

\* C29: the entries tagged HL_STRING are those from a quote that opens a
\* string through the first later occurrence of the same quote that no
\* backslash escapes, or through the end of the row when there is none: the
\* character after a backslash and the other quote are inside the string;
\* and the highlight array has rsize entries, none written past them.
C29_StringsToClosingQuote ==
  Highlighted =>
    LET render == E.row[1].render
        hl == E.row[1].hl
        lex == Lex(render, 0)
    IN /\ Len(hl) = E.row[1].rsize
       /\ Len(render) = E.row[1].rsize
       /\ \A k \in 1..E.row[1].rsize : hl[k] = HL_STRING <=> lex[k] = "string"

\* The row  "\"  : the quote after the backslash does not close the string,
\* which runs to the end of the row.
C29_Witness ==
  /\ Highlighted
  /\ E.row[1].render = <<CH_DQUOTE, CH_BACKSLASH, CH_DQUOTE>>
  /\ E.row[1].hl = <<HL_STRING, HL_STRING, HL_STRING>>

\* How many digits out holds from index i on.
RECURSIVE DigitRun(_, _)
DigitRun(out, i) ==
  IF i <= Len(out) /\ isdigit(out[i]) THEN 1 + DigitRun(out, i + 1) ELSE 0

\* The length of the documented control sequence out starts with -- ESC [,
\* digits, m (a color, 39, 7 or none) or ESC [ K -- or 0 when it starts
\* with none.
ControlSeqLen(out) ==
  IF Len(out) >= 3 /\ out[1] = CH_ESC /\ out[2] = 91
  THEN LET k == DigitRun(out, 3)
       IN IF 3 + k <= Len(out)
             /\ (out[3 + k] = 109 \/ (k = 0 /\ out[3] = 75))
          THEN 3 + k ELSE 0
  ELSE 0

\* out without its documented control sequences.
RECURSIVE StripControlSeqs(_)
StripControlSeqs(out) ==
  IF out = <<>> THEN <<>>
  ELSE IF ControlSeqLen(out) # 0
  THEN StripControlSeqs(SubSeq(out, ControlSeqLen(out) + 1, Len(out)))
  ELSE <<Head(out)>> \o StripControlSeqs(Tail(out))

\* The glyph shown for byte c.
Glyph(c) == IF iscntrl(c) THEN (IF c <= 26 THEN 64 + c ELSE 63) ELSE c

\* render[from .. from + n), cut at the end of the row.
RenderSlice(row, from, n) ==
  SubSeq(row.render, from + 1, IF from + n < row.rsize THEN from + n ELSE row.rsize)

\* C30: the bytes emitted for a visible row, without the control sequences
\* ESC[<n>m, ESC[39m, ESC[7m, ESC[m and ESC[K, are the characters of
\* render[coloff, coloff + screencols) in order, each control character as
\* its glyph, and nothing else.
C30_RowBytesAreTheSlice ==
  pc = "drawn" =>
    LET slice == RenderSlice(E.row[1], hist.coloff, E.screencols)
    IN StripControlSeqs(hist.out) = [k \in 1..Len(slice) |-> Glyph(slice[k])]

\* s begins with p; s ends with p.
StartsWith(s, p) == Len(s) >= Len(p) /\ SubSeq(s, 1, Len(p)) = p
EndsWith(s, p) == Len(s) >= Len(p) /\ SubSeq(s, Len(s) - Len(p) + 1, Len(s)) = p

\* The sequence that puts the cursor on line l, column c of the screen.
CursorSeq(l, c) == <<CH_ESC, 91>> \o Decimal(l) \o <<59>> \o Decimal(c) \o <<72>>

\* A step that writes to the terminal, and the states where a key is read.
WroteFrame == hist'.frames = hist.frames + 1
ReadingKey == pc \in {"key", "prompt_key"}

\* C23: frames and keys alternate, a frame first: a frame is written only
\* after a key or at the start and a key is read only after a frame; each
\* editorRefreshScreen recomputes the viewport and then writes once, with no
\* key read in between; what it writes begins with hide-cursor and
\* cursor-home and ends with the cursor-position sequence for
\* (cy - rowoff + 1, rx - coloff + 1) and show-cursor.
C23_FrameThenKey ==
  /\ [][WroteFrame => hist.last # "frame" /\ hist'.last = "frame"]_vars
  /\ [][ReadingKey => hist.last = "frame" /\ hist'.last = "key"]_vars
  /\ [](ReadingKey => hist.frames = 1)
  /\ [][pc = "refresh" => pc' = "draw" /\ E' = editorScroll(E) /\ ~WroteFrame]_vars
  /\ [][pc = "draw"
        => /\ WroteFrame /\ ReadingKey'
           /\ E' = E /\ E = editorScroll(E)
           /\ StartsWith(hist'.out, VT100.hide \o VT100.home)
           /\ EndsWith(hist'.out,
                       CursorSeq(E.cy - E.rowoff + 1, E.rx - E.coloff + 1)
                         \o VT100.show)]_vars

\* The cursor is after the tab of the row "<TAB>1" and the window has
\* scrolled right: the frame ends by putting the cursor on line 1, column 4.
C23_Witness ==
  /\ pc = "key" /\ hist.last = "frame"
  /\ E.cy = 0 /\ E.cx = 1 /\ E.rx = KILO_TAB_STOP /\ E.coloff = 5
  /\ EndsWith(hist.out, <<CH_ESC, 91, 49, 59, 52, 72>> \o VT100.show)

\* C31: no key makes the program read or write a row outside [0, numrows):
\* the cursor keys read the size of no such row -- Delete moves right before
\* it deletes -- and no case of the switch writes through one.
C31_KeysStayInsideRows ==
  [][\A c \in OtherKeys :
       KeyFrom({c}) =>
         /\ pc' # "undefined"
         /\ ~MoveReadsOutside(E, IF c = DEL_KEY THEN ARROW_RIGHT ELSE c)]_vars

\* The raw rows of a document with the character at (cy, cx) removed, and
\* with row cy + 1 joined onto row cy.
WithoutCharAt(rows, cy, cx) ==
  [rows EXCEPT ![cy + 1] = SubSeq(@, 1, cx) \o SubSeq(@, cx + 2, Len(@))]

WithNextJoined(rows, cy) ==
  [k \in 1..(Len(rows) - 1) |->
     IF k < cy + 1 THEN rows[k]
     ELSE IF k = cy + 1 THEN rows[k] \o rows[k + 1]
     ELSE rows[k + 1]]

\* C32: the Delete key leaves the cursor where it was, and either removes
\* the character at the cursor, joins the next row onto the current one, or
\* leaves the document as it was.
C32_DeleteKeepsCursor ==
  [][KeyFrom({DEL_KEY}) =>
       /\ pc' = "key"
       /\ E'.cy = E.cy /\ E'.cx = E.cx
       /\ \/ /\ E.cy < E.numrows /\ E.cx < E.row[E.cy + 1].size
             /\ RawRows(E') = WithoutCharAt(RawRows(E), E.cy, E.cx)
          \/ /\ E.cy + 1 < E.numrows /\ E.cx = E.row[E.cy + 1].size
             /\ RawRows(E') = WithNextJoined(RawRows(E), E.cy)
          \/ RawRows(E') = RawRows(E)]_vars

\* Whether the bytes t occur in the bytes s.
Contains(s, t) ==
  \E o \in 0..(Len(s) - Len(t)) : SubSeq(s, o + 1, o + Len(t)) = t

\* C33: a document that holds a row holds one after every key: the number
\* of rows decreases only by one, when a row cy >= 1 is joined onto the row
\* before it (Backspace at its start, Delete at the end of the row before),
\* which leaves the cursor on that row; and no frame written while the
\* document holds a row shows the welcome banner.  (A key whose outcome is
\* undefined ends the behaviour of the model; the document is as it was.)
C33_NeverEmptyAgain ==
  /\ [][E.numrows >= 1 => E'.numrows >= 1]_vars
  /\ [][E'.numrows < E.numrows
        => /\ pc = "key" /\ E.numrows >= 2
           /\ E'.numrows = E.numrows - 1
           /\ E'.cy \in 0..(E.numrows - 2)
           /\ E.cy \in {E'.cy, E'.cy + 1}
           /\ RawRows(E') = WithNextJoined(RawRows(E), E'.cy)]_vars
  /\ [][WroteFrame /\ E.numrows >= 1
        => ~Contains(hist'.out, DrawWelcome(E.screencols))]_vars

\* Both characters of the file "<TAB>1" were deleted: the document holds
\* one empty row, and the frame on the screen has no banner.
C33_Witness ==
  /\ pc = "key" /\ hist.last = "frame"
  /\ E.numrows = 1 /\ E.row[1].size = 0 /\ E.dirty = 2 /\ E.cy = 0
  /\ ~Contains(hist.out, DrawWelcome(E.screencols))

\* What editorOpen loads from the bytes editorSave writes for the document.
Reloaded(E0) ==
  editorOpen(initEditor(ZeroE, WinRows, WinCols), CHOOSE n \in FileNames : TRUE,
             editorRowsToString(E0).buf)

\* C34: whatever keys built the document, loading the bytes that
\* editorRowsToString makes of it gives the same rows: as many, with the
\* same bytes, in the same order.
C34_SaveLoadRoundTrip ==
  pc = "key" => RawRows(Reloaded(E)) = RawRows(E)

\* C35: a key of the search prompt that leaves the query empty -- Backspace,
\* an arrow, or Enter -- has a callback that moves neither the cursor nor
\* the window and marks no byte of any row as a match.
C35_EmptyQueryIsInert ==
  [][\A c \in {BACKSPACE, CH_CR, ARROW_UP, ARROW_LEFT, ARROW_DOWN, ARROW_RIGHT} :
       PromptFindFrom({c}, MaxSearch) /\ prompt'.buf = <<>> =>
         /\ E'.cy = E.cy /\ E'.cx = E.cx
         /\ E'.rowoff = E.rowoff /\ E'.coloff = E.coloff
         /\ \A r \in 1..E'.numrows :
              \A k \in 1..Len(E'.row[r].hl) : E'.row[r].hl[k] # HL_MATCH]_vars

====
